---- MODULE Spec2Model ----
(***************************************************************************)
(* Model of the concurrent data plane of crypto-price-alerts: the alert    *)
(* Store (internal/alerts/store.go), the tick Broker (internal/pubsub),    *)
(* the TriggerBus (internal/alerts/trigger_bus.go) and the rule Engine     *)
(* (internal/alerts/engine.go).                                            *)
(*                                                                         *)
(* Go specifics kept by the model:                                         *)
(*  - a send on a closed channel and a close of a closed channel panic,    *)
(*    and a panic ends the process (panicked # "none" disables all steps); *)
(*  - a receive from a closed channel yields the buffered items and then   *)
(*    the zero value (NilItem) without blocking;                           *)
(*  - select picks any ready case.                                         *)
(***************************************************************************)
EXTENDS Integers, Sequences, FiniteSets, TLC

\* ---------------------------------------------------------------- bounds
MaxQueue == 1
MaxTime == 3
MaxObjects == 2
Cooldown == 1

\* ---------------------------------------------------------------- domains
Symbols == {"BTC", "ETH"}
AlertIds == {"a1", "a2"}
SubIds == {"s1", "s2"}
Comparators == {"UNSPECIFIED", "GT", "GTE", "LT", "LTE", "EQ"}
Fields == {"symbol", "comparator", "threshold", "note", "enabled"}

Comp == {"broker", "bus", "engine"}
FanComp == {"broker", "bus"}

VARIABLES
    alerts,        \* Store.alerts: alert id -> Alert
    symbolIndex,   \* Store.symbolIndex: symbol -> sequence of alert ids
    held,          \* <<>>, or <<a>>: an Alert copy a caller got back from Store.Get
    now,           \* the clock read by time.Now()
    ret,           \* outcome of the last API call: [on, op, err]
    panicked,      \* "none", or the runtime panic that ended the process
    running,       \* component -> its running flag
    stopChan,      \* component -> TRUE once stopChan is closed
    queue,         \* component -> buffered items of tickChan / triggerChan
    queueClosed,   \* component -> TRUE once the internal queue is closed
    ctxDone,       \* component -> TRUE once the context given to Start is cancelled
    loops,         \* component -> the dispatch goroutines launched, each [pc, item, alerts, i]
    registry,      \* component -> subscribers map: subscriber id -> subscriber object
    objects,       \* the subscriber objects in use: slot -> [comp, symbols, cap, inbox, closed]
    cooldownMap,   \* Engine.cooldownMap: alert id -> time of the last trigger
    focus,         \* the component instance under examination (fixed by Init)
    feed,          \* the ticks a feeder has still to hand to Engine.ProcessTick
    tasks          \* goroutine -> [op, pos]: the call it is in and the lock operations done

storeVars == <<alerts, symbolIndex>>
fanVars == <<running, stopChan, queue, queueClosed, ctxDone, loops, registry, objects>>
vars == <<alerts, symbolIndex, held, now, ret, panicked, running, stopChan, queue,
          queueClosed, ctxDone, loops, registry, objects, cooldownMap, focus, feed, tasks>>

\* ---------------------------------------------------------------- maps
MapPut(m, k, v) == [x \in (DOMAIN m) \cup {k} |-> IF x = k THEN v ELSE m[x]]

\* A faulty map delete, which keeps the key.
MapKeep(m, k) == m

MapDel(m, k) == [x \in (DOMAIN m) \ {k} |-> m[x]]

EmptyMap == <<>>

SeqToSet(s) == {s[i] : i \in 1..Len(s)}

RemoveAt(s, i) == [j \in 1..(Len(s) - 1) |-> IF j < i THEN s[j] ELSE s[j + 1]]

Ret(on, op, err) == [on |-> on, op |-> op, err |-> err]

Alive == panicked = "none"

\* ---------------------------------------------------------------- models
NewAlertValue(id, symbol, comparator, threshold, note) ==
    [id |-> id, symbol |-> symbol, comparator |-> comparator,
     threshold |-> threshold, note |-> note, enabled |-> TRUE,
     lastTrigger |-> <<>>]

\* ---------------------------------------------------------------- Store
FirstIndexOf(s, x) == CHOOSE i \in 1..Len(s) : s[i] = x /\ \A j \in 1..(i - 1) : s[j] # x

\* A faulty addToSymbolIndex, which adds nothing to a bucket that exists.
addToSymbolIndexNewOnly(idx, symbol, alertID) ==
    IF symbol \in DOMAIN idx THEN idx ELSE MapPut(idx, symbol, <<alertID>>)

addToSymbolIndex(idx, symbol, alertID) ==
    IF symbol \in DOMAIN idx
    THEN IF alertID \in SeqToSet(idx[symbol])
         THEN idx
         ELSE [idx EXCEPT ![symbol] = Append(@, alertID)]
    ELSE MapPut(idx, symbol, <<alertID>>)

\* A faulty removeFromSymbolIndex, which leaves the bucket as it is.
removeFromSymbolIndexKeeps(idx, symbol, alertID) == idx

\* A faulty removeFromSymbolIndex, which keeps a bucket it has emptied.
removeFromSymbolIndexLeavesEmpty(idx, symbol, alertID) ==
    IF symbol \notin DOMAIN idx
    THEN idx
    ELSE LET ids == idx[symbol]
         IN [idx EXCEPT ![symbol] =
                IF alertID \in SeqToSet(ids)
                THEN [j \in 1..(Len(ids) - 1) |->
                         IF j < (CHOOSE i \in 1..Len(ids) : ids[i] = alertID)
                         THEN ids[j] ELSE ids[j + 1]]
                ELSE ids]

removeFromSymbolIndex(idx, symbol, alertID) ==
    IF symbol \notin DOMAIN idx
    THEN idx
    ELSE LET ids == idx[symbol]
             cut == IF alertID \in SeqToSet(ids)
                    THEN RemoveAt(ids, FirstIndexOf(ids, alertID))
                    ELSE ids
         IN IF Len(cut) = 0 THEN MapDel(idx, symbol) ELSE [idx EXCEPT ![symbol] = cut]

\* A faulty field loop, which enables the alert whenever "enabled" is not
\* supplied.
ApplyUpdatesEnables(alert, updates) ==
    [f \in DOMAIN alert |->
        IF f \in DOMAIN updates THEN updates[f]
        ELSE IF f = "enabled" THEN TRUE ELSE alert[f]]

\* The field loop of Update. The values are of the field's type, as
\* UpdateAlert builds them, so every type assertion of the loop succeeds.
ApplyUpdates(alert, updates) ==
    [f \in DOMAIN alert |-> IF f \in DOMAIN updates THEN updates[f] ELSE alert[f]]

\* A faulty Create, which overwrites the alert of an id that exists.
CreateOverwrite(alert) ==
    /\ Alive
    /\ alerts' = MapPut(alerts, alert.id, alert)
    /\ symbolIndex' = addToSymbolIndex(symbolIndex, alert.symbol, alert.id)
    /\ ret' = Ret("store", "Create", "ok")
    /\ UNCHANGED <<held, now, panicked, fanVars, cooldownMap, focus, feed, tasks>>

Create(alert) ==
    /\ Alive
    /\ IF alert.id \in DOMAIN alerts
       THEN /\ ret' = Ret("store", "Create", "AlreadyExists")
            /\ UNCHANGED storeVars
       ELSE /\ alerts' = MapPut(alerts, alert.id, alert)
            /\ symbolIndex' = addToSymbolIndex(symbolIndex, alert.symbol, alert.id)
            /\ ret' = Ret("store", "Create", "ok")
    /\ UNCHANGED <<held, now, panicked, fanVars, cooldownMap, focus, feed, tasks>>

Get(id) ==
    IF id \in DOMAIN alerts
    THEN [err |-> "ok", val |-> <<alerts[id]>>]
    ELSE [err |-> "NotFound", val |-> <<>>]

\* The outcome of Update: the error, the copy returned, and the primary map
\* and the symbol index it leaves.
StoreUpdate(id, updates) ==
    IF id \notin DOMAIN alerts
    THEN [err |-> "NotFound", val |-> <<>>, alerts |-> alerts,
          symbolIndex |-> symbolIndex]
    ELSE LET oldSymbol == alerts[id].symbol
             alert == ApplyUpdates(alerts[id], updates)
         IN [err |-> "ok",
             val |-> <<alert>>,
             alerts |-> [alerts EXCEPT ![id] = alert],
             symbolIndex |->
                 IF oldSymbol # alert.symbol
                 THEN addToSymbolIndex(
                          removeFromSymbolIndex(symbolIndex, oldSymbol, id),
                          alert.symbol, id)
                 ELSE symbolIndex]

Update(id, updates) ==
    /\ Alive
    /\ alerts' = StoreUpdate(id, updates).alerts
    /\ symbolIndex' = StoreUpdate(id, updates).symbolIndex
    /\ ret' = Ret("store", "Update", StoreUpdate(id, updates).err)
    /\ UNCHANGED <<held, now, panicked, fanVars, cooldownMap, focus, feed, tasks>>

Delete(id) ==
    /\ Alive
    /\ IF id \notin DOMAIN alerts
       THEN /\ ret' = Ret("store", "Delete", "NotFound")
            /\ UNCHANGED storeVars
       ELSE /\ symbolIndex' = removeFromSymbolIndex(symbolIndex, alerts[id].symbol, id)
            /\ alerts' = MapDel(alerts, id)
            /\ ret' = Ret("store", "Delete", "ok")
    /\ UNCHANGED <<held, now, panicked, fanVars, cooldownMap, focus, feed, tasks>>

\* A faulty bucket walk, which stops after the first id.
IndexedAlertsFirst(symbol) ==
    IF symbol \in DOMAIN symbolIndex
    THEN SubSeq(SelectSeq(symbolIndex[symbol], LAMBDA id : id \in DOMAIN alerts), 1, 1)
    ELSE <<>>

IndexedAlerts(symbol) ==
    IF symbol \in DOMAIN symbolIndex
    THEN SelectSeq(symbolIndex[symbol], LAMBDA id : id \in DOMAIN alerts)
    ELSE <<>>

GetBySymbol(symbol) ==
    LET ids == IndexedAlerts(symbol)
    IN [i \in 1..Len(ids) |-> alerts[ids[i]]]

\* A faulty GetEnabledBySymbol, which returns the disabled alerts too.
GetEnabledBySymbolAll(symbol) == GetBySymbol(symbol)

GetEnabledBySymbol(symbol) ==
    LET ids == SelectSeq(IndexedAlerts(symbol), LAMBDA id : alerts[id].enabled)
    IN [i \in 1..Len(ids) |-> alerts[ids[i]]]

GetAll == {alerts[id] : id \in DOMAIN alerts}

\* Store.Count
StoreCount == Cardinality(DOMAIN alerts)

CountBySymbol(symbol) ==
    IF symbol \in DOMAIN symbolIndex THEN Len(symbolIndex[symbol]) ELSE 0

\* The symbols returned (in the order of the map iteration).
GetActiveSymbols == DOMAIN symbolIndex

\* A faulty Alert.MarkTriggered, which disables the alert as well.
AlertMarkTriggeredDisables(alert) ==
    [alert EXCEPT !.lastTrigger = <<now>>, !.enabled = FALSE]

AlertMarkTriggered(alert) == [alert EXCEPT !.lastTrigger = <<now>>]

\* A faulty MarkTriggered, which reports success for an id that is not stored.
StoreMarkTriggeredSilent(id) ==
    IF id \in DOMAIN alerts
    THEN [err |-> "ok", alerts |-> [alerts EXCEPT ![id] = AlertMarkTriggered(@)]]
    ELSE [err |-> "ok", alerts |-> alerts]

StoreMarkTriggered(id) ==
    IF id \in DOMAIN alerts
    THEN [err |-> "ok", alerts |-> [alerts EXCEPT ![id] = AlertMarkTriggered(@)]]
    ELSE [err |-> "NotFound", alerts |-> alerts]

MarkTriggered(id) ==
    /\ Alive
    /\ alerts' = StoreMarkTriggered(id).alerts
    /\ ret' = Ret("store", "MarkTriggered", StoreMarkTriggered(id).err)
    /\ UNCHANGED <<symbolIndex, held, now, panicked, fanVars, cooldownMap, focus, feed, tasks>>

\* ---------------------------------------------------------------- items
NilItem == [kind |-> "nil"]

NewTick(symbol, price) == [kind |-> "tick", symbol |-> symbol, price |-> price]

\* A faulty NewAlertTrigger, which records the alert's threshold as the price.
NewAlertTriggerAtThreshold(alert, triggeredPrice) ==
    [kind |-> "trigger", alert |-> alert, triggeredPrice |-> alert.threshold,
     timestamp |-> now]

NewAlertTrigger(alert, triggeredPrice) ==
    [kind |-> "trigger", alert |-> alert, triggeredPrice |-> triggeredPrice,
     timestamp |-> now]

\* ---------------------------------------------------------------- subscribers
NewSubscriber(c, id, symbols, bufferSize) ==
    [comp |-> c, symbols |-> symbols, cap |-> bufferSize, inbox |-> <<>>,
     closed |-> FALSE]

\* A faulty IsInterestedIn, which takes every symbol.
IsInterestedInAny(o, item) == TRUE

\* Subscriber.IsInterestedIn; the TriggerBus has no filter.
IsInterestedIn(o, item) ==
    IF objects[o].comp = "broker" THEN item.symbol \in objects[o].symbols ELSE TRUE

Registered(c) == {registry[c][id] : id \in DOMAIN registry[c]}

\* A faulty Close, which closes nothing.
CloseNone(S) == objects

\* Subscriber.Close on each object of S (none of them closed yet).
CloseAll(S) == [o \in DOMAIN objects |->
                   IF o \in S THEN [objects[o] EXCEPT !.closed = TRUE] ELSE objects[o]]

\* A slot holding no subscriber.
Free == [comp |-> "free", symbols |-> {}, cap |-> 0, inbox |-> <<>>, closed |-> TRUE]

FreeSlots == {o \in DOMAIN objects : objects[o] = Free}

\* A subscriber that is closed, drained and in no registry can be reached by
\* nothing any more (its consumer has read ok = false and returned): its slot
\* is given back.
Collect(objs, reg) ==
    [o \in DOMAIN objs |->
        IF /\ objs[o].closed
           /\ Len(objs[o].inbox) = 0
           /\ \A c \in FanComp : \A id \in DOMAIN reg[c] : reg[c][id] # o
        THEN Free ELSE objs[o]]

IdleLoop == [pc |-> "select", item |-> NilItem, alerts |-> <<>>, i |-> 0]

\* ---------------------------------------------------------------- lifecycle
Start(c) ==
    /\ Alive
    /\ IF running[c]
       THEN /\ ret' = Ret(c, "Start", "noop")
            /\ UNCHANGED <<running, loops>>
       ELSE /\ running' = [running EXCEPT ![c] = TRUE]
            /\ loops' = [loops EXCEPT ![c] = Append(@, IdleLoop)]
            /\ ret' = Ret(c, "Start", "ok")
    /\ UNCHANGED <<storeVars, held, now, panicked, stopChan, queue, queueClosed,
                   ctxDone, registry, objects, cooldownMap, focus, feed, tasks>>

\* The body of Stop past the running check: running = false, close(stopChan),
\* Close of every subscriber of the registry (they stay in it), close(queue).
StopClose(c) ==
    /\ running' = [running EXCEPT ![c] = FALSE]
    /\ IF stopChan[c]
       THEN \* close(stopChan) on a closed channel
            /\ panicked' = "close of closed channel"
            /\ ret' = Ret(c, "Stop", "panic")
            /\ UNCHANGED <<stopChan, objects, queueClosed>>
       ELSE /\ stopChan' = [stopChan EXCEPT ![c] = TRUE]
            /\ IF \E o \in Registered(c) : objects[o].closed
               THEN \* subscriber.Close() on a closed subscriber, after
                    \* any of the others (map order)
                    /\ \E S \in SUBSET {o \in Registered(c) : ~objects[o].closed} :
                           objects' = CloseAll(S)
                    /\ panicked' = "close of closed channel"
                    /\ ret' = Ret(c, "Stop", "panic")
                    /\ UNCHANGED queueClosed
               ELSE /\ objects' = CloseAll(Registered(c))
                    /\ IF queueClosed[c]
                       THEN /\ panicked' = "close of closed channel"
                            /\ ret' = Ret(c, "Stop", "panic")
                            /\ UNCHANGED queueClosed
                       ELSE /\ queueClosed' = [queueClosed EXCEPT ![c] = TRUE]
                            /\ ret' = Ret(c, "Stop", "ok")
                            /\ UNCHANGED panicked

\* A faulty Stop, without the running check.
StopUnguarded(c) ==
    /\ Alive
    /\ StopClose(c)
    /\ UNCHANGED <<storeVars, held, now, queue, ctxDone, loops, registry,
                   cooldownMap, focus, feed, tasks>>

Stop(c) ==
    /\ Alive
    /\ IF ~running[c]
       THEN /\ ret' = Ret(c, "Stop", "noop")
            /\ UNCHANGED <<running, stopChan, objects, queueClosed, panicked>>
       ELSE StopClose(c)
    /\ UNCHANGED <<storeVars, held, now, queue, ctxDone, loops, registry,
                   cooldownMap, focus, feed, tasks>>

\* The context handed to Start is cancelled by its owner.
Cancel(c) ==
    /\ Alive
    /\ ~ctxDone[c]
    /\ ctxDone' = [ctxDone EXCEPT ![c] = TRUE]
    /\ UNCHANGED <<storeVars, held, now, ret, panicked, running, stopChan, queue,
                   queueClosed, loops, registry, objects, cooldownMap, focus, feed, tasks>>

\* ---------------------------------------------------------------- registry
Subscribe(c, id, symbols, bufferSize) ==
    /\ Alive
    /\ FreeSlots # {}
    /\ IF id \in DOMAIN registry[c] /\ objects[registry[c][id]].closed
       THEN \* existing.Close() on a closed subscriber
            /\ panicked' = "close of closed channel"
            /\ ret' = Ret(c, "Subscribe", "panic")
            /\ UNCHANGED <<registry, objects>>
       ELSE LET old == IF id \in DOMAIN registry[c] THEN {registry[c][id]} ELSE {}
                slot == CHOOSE o \in FreeSlots : \A p \in FreeSlots : o <= p
            IN /\ registry' = [registry EXCEPT ![c] = MapPut(@, id, slot)]
               /\ objects' = Collect([CloseAll(old) EXCEPT
                                         ![slot] = NewSubscriber(c, id, symbols, bufferSize)],
                                     registry')
               /\ ret' = Ret(c, "Subscribe", "ok")
               /\ UNCHANGED panicked
    /\ UNCHANGED <<storeVars, held, now, running, stopChan, queue, queueClosed,
                   ctxDone, loops, cooldownMap, focus, feed, tasks>>

Unsubscribe(c, id) ==
    /\ Alive
    /\ IF id \notin DOMAIN registry[c]
       THEN /\ ret' = Ret(c, "Unsubscribe", "noop")
            /\ UNCHANGED <<registry, objects, panicked>>
       ELSE IF objects[registry[c][id]].closed
            THEN \* subscriber.Close() on a closed subscriber
                 /\ panicked' = "close of closed channel"
                 /\ ret' = Ret(c, "Unsubscribe", "panic")
                 /\ UNCHANGED <<registry, objects>>
            ELSE /\ registry' = [registry EXCEPT ![c] = MapDel(@, id)]
                 /\ objects' = Collect(CloseAll({registry[c][id]}), registry')
                 /\ ret' = Ret(c, "Unsubscribe", "ok")
                 /\ UNCHANGED panicked
    /\ UNCHANGED <<storeVars, held, now, running, stopChan, queue, queueClosed,
                   ctxDone, loops, cooldownMap, focus, feed, tasks>>

UpdateSubscription(id, symbols) ==
    /\ Alive
    /\ IF id \notin DOMAIN registry["broker"]
       THEN /\ ret' = Ret("broker", "UpdateSubscription", "false")
            /\ UNCHANGED objects
       ELSE /\ objects' = [objects EXCEPT ![registry["broker"][id]].symbols = symbols]
            /\ ret' = Ret("broker", "UpdateSubscription", "true")
    /\ UNCHANGED <<storeVars, held, now, panicked, running, stopChan, queue,
                   queueClosed, ctxDone, loops, registry, cooldownMap, focus, feed, tasks>>

\* ---------------------------------------------------------------- ingestion
\* select { case ch <- item: default: } on the component's internal queue.
Enqueue(c, item) ==
    IF queueClosed[c]
    THEN [outcome |-> "panic", queue |-> queue]
    ELSE IF Len(queue[c]) < MaxQueue
         THEN [outcome |-> "queued", queue |-> [queue EXCEPT ![c] = Append(@, item)]]
         ELSE [outcome |-> "dropped", queue |-> queue]

\* The select of Publish / ProcessTick, run by any caller.
Send(c, item) ==
    /\ Alive
    /\ queue' = Enqueue(c, item).queue
    /\ ret' = Ret(c, "Publish", Enqueue(c, item).outcome)
    /\ panicked' = IF Enqueue(c, item).outcome = "panic"
                   THEN "send on closed channel" ELSE panicked
    /\ UNCHANGED <<storeVars, held, now, running, stopChan, queueClosed, ctxDone,
                   loops, registry, objects, cooldownMap, focus, tasks>>

Publish(c, item) == Send(c, item) /\ UNCHANGED feed

\* ---------------------------------------------------------------- dispatch loop
LoopAt(c, k, pc) == k \in 1..Len(loops[c]) /\ loops[c][k].pc = pc

SetLoop(c, k, l) == [loops EXCEPT ![c][k] = l]

\* case <-ctx.Done(): return
LoopCancelled(c, k) ==
    /\ Alive
    /\ LoopAt(c, k, "select")
    /\ ctxDone[c]
    /\ loops' = SetLoop(c, k, [IdleLoop EXCEPT !.pc = "exited"])
    /\ UNCHANGED <<storeVars, held, now, ret, panicked, running, stopChan, queue,
                   queueClosed, ctxDone, registry, objects, cooldownMap, focus, feed, tasks>>

\* case <-stopChan: return
LoopStopped(c, k) ==
    /\ Alive
    /\ LoopAt(c, k, "select")
    /\ stopChan[c]
    /\ loops' = SetLoop(c, k, [IdleLoop EXCEPT !.pc = "exited"])
    /\ UNCHANGED <<storeVars, held, now, ret, panicked, running, stopChan, queue,
                   queueClosed, ctxDone, registry, objects, cooldownMap, focus, feed, tasks>>

\* case item := <-queue: a buffered item, or the zero value of a closed queue
LoopReceive(c, k) ==
    /\ Alive
    /\ LoopAt(c, k, "select")
    /\ Len(queue[c]) > 0 \/ queueClosed[c]
    /\ LET item == IF Len(queue[c]) > 0 THEN Head(queue[c]) ELSE NilItem
       IN loops' = SetLoop(c, k, [IdleLoop EXCEPT !.pc = "work", !.item = item])
    /\ queue' = [queue EXCEPT ![c] = IF Len(@) > 0 THEN Tail(@) ELSE @]
    /\ UNCHANGED <<storeVars, held, now, ret, panicked, running, stopChan,
                   queueClosed, ctxDone, registry, objects, cooldownMap, focus, feed, tasks>>

\* The objects after the item was sent to every subscriber of S.
Deliver(S, item) ==
    [o \in DOMAIN objects |->
        IF o \in S THEN [objects[o] EXCEPT !.inbox = Append(@, item)] ELSE objects[o]]

HasRoom(o) == Len(objects[o].inbox) < objects[o].cap

\* The subscribers fanOutTick / fanOutTrigger selects on for this item.
Targets(c, item) == {o \in Registered(c) : IsInterestedIn(o, item)}

\* Those of them the send case succeeds for.
Receivers(c, item) == {o \in Targets(c, item) : ~objects[o].closed /\ HasRoom(o)}

\* A faulty fan-out, whose select has no default case: it waits until every
\* open subscriber it serves has room.
FanOutBlocking(c, k) ==
    /\ Alive
    /\ c \in FanComp
    /\ LoopAt(c, k, "work")
    /\ LET item == loops[c][k].item
       IN /\ \A o \in Targets(c, item) : objects[o].closed \/ HasRoom(o)
          /\ objects' = Deliver(Receivers(c, item), item)
          /\ UNCHANGED panicked
    /\ loops' = SetLoop(c, k, IdleLoop)
    /\ UNCHANGED <<storeVars, held, now, ret, running, stopChan, queue, queueClosed,
                   ctxDone, registry, cooldownMap, focus, feed, tasks>>

FanOut(c, k) ==
    /\ Alive
    /\ c \in FanComp
    /\ LoopAt(c, k, "work")
    /\ LET item == loops[c][k].item
       IN IF c = "broker" /\ item = NilItem
          THEN \* tick.Symbol on a nil *Tick, at the first subscriber
               /\ panicked' = IF Registered(c) # {}
                              THEN "nil pointer dereference" ELSE panicked
               /\ UNCHANGED objects
          ELSE \/ \* every select on a closed subscriber takes <-ctx.Done()
                  /\ objects' = Deliver(Receivers(c, item), item)
                  /\ UNCHANGED panicked
               \/ \* a select on a closed subscriber takes the send case, after
                  \* any of the other subscribers were served (map order)
                  /\ \E o \in Targets(c, item) : objects[o].closed
                  /\ \E S \in SUBSET Receivers(c, item) : objects' = Deliver(S, item)
                  /\ panicked' = "send on closed channel"
    /\ loops' = SetLoop(c, k, IdleLoop)
    /\ UNCHANGED <<storeVars, held, now, ret, running, stopChan, queue, queueClosed,
                   ctxDone, registry, cooldownMap, focus, feed, tasks>>

\* ---------------------------------------------------------------- consumers
\* The holder of a subscriber reads its inbox; a closed channel still yields
\* what is buffered, and then reports ok = false (the consumer returns).
ConsumerRecv(o) ==
    /\ Alive
    /\ o \in DOMAIN objects
    /\ Len(objects[o].inbox) > 0
    /\ objects' = Collect([objects EXCEPT ![o].inbox = Tail(@)], registry)
    /\ UNCHANGED <<storeVars, held, now, ret, panicked, running, stopChan, queue,
                   queueClosed, ctxDone, loops, registry, cooldownMap, focus, feed, tasks>>

\* ---------------------------------------------------------------- Alert
Epsilon == 2

\* A faulty abs, which keeps the sign.
absSigned(x) == x

abs(x) == IF x < 0 THEN 0 - x ELSE x

\* Alert.ShouldTrigger. Prices and thresholds are counted in units of 0.0005,
\* so that the epsilon of 0.001 is 2 units.
ShouldTrigger(a, price) ==
    IF ~a.enabled THEN FALSE
    ELSE CASE a.comparator = "GT" -> price > a.threshold
           [] a.comparator = "GTE" -> price >= a.threshold
           [] a.comparator = "LT" -> price < a.threshold
           [] a.comparator = "LTE" -> price <= a.threshold
           [] a.comparator = "EQ" -> abs(price - a.threshold) < Epsilon
           [] OTHER -> FALSE

\* ---------------------------------------------------------------- Engine
ProcessTick(tick) == Publish("engine", tick)

\* A faulty cooldown test, which never holds a trigger back.
InCooldownNever(id) == FALSE

\* The cooldown test of Engine.shouldTriggerAlert.
InCooldown(id) == id \in DOMAIN cooldownMap /\ now - cooldownMap[id] < Cooldown

shouldTriggerAlert(alert, price) ==
    IF ~ShouldTrigger(alert, price) THEN FALSE
    ELSE IF InCooldown(alert.id) THEN FALSE
    ELSE TRUE

\* The loop after it is done with alert i of its snapshot.
NextAlert(l) ==
    IF l.i < Len(l.alerts) THEN [l EXCEPT !.pc = "check", !.i = l.i + 1] ELSE IdleLoop

\* Engine.evaluateTick up to the snapshot: store.GetEnabledBySymbol(tick.Symbol).
EvaluateTick(k) ==
    /\ Alive
    /\ LoopAt("engine", k, "work")
    /\ LET l == loops["engine"][k]
       IN IF l.item = NilItem
          THEN \* tick.Symbol on a nil *Tick
               /\ panicked' = "nil pointer dereference"
               /\ UNCHANGED loops
          ELSE /\ loops' = SetLoop("engine", k,
                              NextAlert([l EXCEPT !.alerts = GetEnabledBySymbol(l.item.symbol)]))
               /\ UNCHANGED panicked
    /\ UNCHANGED <<storeVars, held, now, ret, running, stopChan, queue, queueClosed,
                   ctxDone, registry, objects, cooldownMap, focus, feed, tasks>>

\* if e.shouldTriggerAlert(alert, tick.Price) { ... }
CheckAlert(k) ==
    /\ Alive
    /\ LoopAt("engine", k, "check")
    /\ LET l == loops["engine"][k]
       IN loops' = SetLoop("engine", k,
                      IF shouldTriggerAlert(l.alerts[l.i], l.item.price)
                      THEN [l EXCEPT !.pc = "trigger"]
                      ELSE NextAlert(l))
    /\ UNCHANGED <<storeVars, held, now, ret, panicked, running, stopChan, queue,
                   queueClosed, ctxDone, registry, objects, cooldownMap, focus, feed, tasks>>

\* A faulty triggerAlert, which returns without publishing when MarkTriggered
\* has failed.
TriggerSentIfMarked(err, alert, triggeredPrice) ==
    IF err = "ok"
    THEN Enqueue("bus", NewAlertTrigger(alert, triggeredPrice))
    ELSE [outcome |-> "skipped", queue |-> queue]

\* What triggerAlert does after store.MarkTriggered has returned err: the error
\* is logged, and the trigger is built and handed to triggerBus.Publish.
TriggerSent(err, alert, triggeredPrice) ==
    Enqueue("bus", NewAlertTrigger(alert, triggeredPrice))

\* A faulty triggerAlert, which puts every alert of the snapshot in cooldown.
triggerAlertSymbolCooldown(k) ==
    /\ Alive
    /\ LoopAt("engine", k, "trigger")
    /\ LET l == loops["engine"][k]
           alert == l.alerts[l.i]
           marked == StoreMarkTriggered(alert.id)
           sent == TriggerSent(marked.err, alert, l.item.price)
       IN /\ cooldownMap' = [id \in DOMAIN cooldownMap \cup {l.alerts[i].id : i \in 1..Len(l.alerts)} |->
                                 IF \E i \in 1..Len(l.alerts) : l.alerts[i].id = id
                                 THEN now ELSE cooldownMap[id]]
          /\ alerts' = marked.alerts
          /\ ret' = Ret("engine", "triggerAlert", marked.err)
          /\ queue' = sent.queue
          /\ panicked' = IF sent.outcome = "panic" THEN "send on closed channel" ELSE panicked
          /\ loops' = SetLoop("engine", k, NextAlert(l))
    /\ UNCHANGED <<symbolIndex, held, now, running, stopChan, queueClosed, ctxDone,
                   registry, objects, focus, feed, tasks>>

\* Engine.triggerAlert: the cooldown entry, store.MarkTriggered (its error is
\* only logged: ret keeps it) and triggerBus.Publish of a trigger built from the
\* snapshot alert.
triggerAlert(k) ==
    /\ Alive
    /\ LoopAt("engine", k, "trigger")
    /\ LET l == loops["engine"][k]
           alert == l.alerts[l.i]
           marked == StoreMarkTriggered(alert.id)
           sent == TriggerSent(marked.err, alert, l.item.price)
       IN /\ cooldownMap' = MapPut(cooldownMap, alert.id, now)
          /\ alerts' = marked.alerts
          /\ ret' = Ret("engine", "triggerAlert", marked.err)
          /\ queue' = sent.queue
          /\ panicked' = IF sent.outcome = "panic" THEN "send on closed channel" ELSE panicked
          /\ loops' = SetLoop("engine", k, NextAlert(l))
    /\ UNCHANGED <<symbolIndex, held, now, running, stopChan, queueClosed, ctxDone,
                   registry, objects, focus, feed, tasks>>

\* A faulty CleanupCooldowns, whose cutoff is one cooldown window ago.
CleanupCooldownsOneWindow ==
    /\ Alive
    /\ LET cutoff == now - Cooldown
       IN cooldownMap' = [id \in {x \in DOMAIN cooldownMap : ~(cooldownMap[x] < cutoff)} |->
                             cooldownMap[id]]
    /\ ret' = Ret("engine", "CleanupCooldowns", "ok")
    /\ UNCHANGED <<storeVars, held, now, panicked, fanVars, focus, feed, tasks>>

\* A faulty CleanupCooldowns, which empties the cooldown map.
CleanupCooldownsEverything ==
    /\ Alive
    /\ cooldownMap' = EmptyMap
    /\ ret' = Ret("engine", "CleanupCooldowns", "ok")
    /\ UNCHANGED <<storeVars, held, now, panicked, fanVars, focus, feed, tasks>>

CleanupCooldowns ==
    /\ Alive
    /\ LET cutoff == now - Cooldown * 2
       IN cooldownMap' = [id \in {x \in DOMAIN cooldownMap : ~(cooldownMap[x] < cutoff)} |->
                             cooldownMap[id]]
    /\ ret' = Ret("engine", "CleanupCooldowns", "ok")
    /\ UNCHANGED <<storeVars, held, now, panicked, fanVars, focus, feed, tasks>>

GetStats ==
    [Running |-> running["engine"], CooldownEntries |-> Cardinality(DOMAIN cooldownMap),
     QueuedTicks |-> Len(queue["engine"])]

TriggerBusGetStats ==
    [Running |-> running["bus"], SubscriberCount |-> Cardinality(DOMAIN registry["bus"]),
     QueuedTriggers |-> Len(queue["bus"])]

\* ---------------------------------------------------------------- locks
\* The mutexes: Engine.mu, Store.mu, Broker.mu and TriggerBus.mu, one per
\* component.
Mutexes == {"Engine.mu", "Store.mu", "Broker.mu", "TriggerBus.mu"}

\* The goroutines: the three dispatch loops, the periodic cleanup routine of
\* main, and two callers of the API (gRPC handlers, main).
Tasks == {"processTicks", "distributeTriggers", "distributeTicks", "cleanup", "api1", "api2"}

IdleTask == [op |-> "idle", pos |-> 0]

LockOp(act, mu) == [act |-> act, mu |-> mu]

\* A faulty lock sequence, in which triggerAlert releases Engine.mu by defer,
\* after store.MarkTriggered has returned.
LockScriptDeferred(op) ==
    IF op = "Engine.evaluateTick"
    THEN <<LockOp("RLock", "Store.mu"), LockOp("RUnlock", "Store.mu"),
           LockOp("RLock", "Engine.mu"), LockOp("RUnlock", "Engine.mu"),
           LockOp("Lock", "Engine.mu"),
           LockOp("Lock", "Store.mu"), LockOp("Unlock", "Store.mu"),
           LockOp("Unlock", "Engine.mu")>>
    ELSE IF op = "idle" THEN <<>>
    ELSE <<LockOp("Lock", "Store.mu"), LockOp("Unlock", "Store.mu")>>

\* The lock operations a call performs, in program order. evaluateTick on a
\* tick that fires an alert: store.GetEnabledBySymbol, the cooldown read of
\* shouldTriggerAlert, the cooldown write of triggerAlert, store.MarkTriggered
\* (triggerBus.Publish takes no lock). Every other call takes the lock of its
\* component once: Store.Update stands for Create, Update, Delete and
\* MarkTriggered, Store.Get for the readers of the Store, Subscribe for Start,
\* Stop, Subscribe, Unsubscribe and UpdateSubscription, GetSubscriberCount for
\* the readers of a registry, Engine.Stop for Start and Stop.
LockScript(op) ==
    CASE op = "idle" -> <<>>
      [] op = "Engine.evaluateTick" ->
            <<LockOp("RLock", "Store.mu"), LockOp("RUnlock", "Store.mu"),
              LockOp("RLock", "Engine.mu"), LockOp("RUnlock", "Engine.mu"),
              LockOp("Lock", "Engine.mu"), LockOp("Unlock", "Engine.mu"),
              LockOp("Lock", "Store.mu"), LockOp("Unlock", "Store.mu")>>
      [] op = "Engine.CleanupCooldowns" ->
            <<LockOp("Lock", "Engine.mu"), LockOp("Unlock", "Engine.mu")>>
      [] op = "Engine.Stop" ->
            <<LockOp("Lock", "Engine.mu"), LockOp("Unlock", "Engine.mu")>>
      [] op = "Engine.GetStats" ->
            <<LockOp("RLock", "Engine.mu"), LockOp("RUnlock", "Engine.mu")>>
      [] op = "Store.Update" ->
            <<LockOp("Lock", "Store.mu"), LockOp("Unlock", "Store.mu")>>
      [] op = "Store.Get" ->
            <<LockOp("RLock", "Store.mu"), LockOp("RUnlock", "Store.mu")>>
      [] op = "Broker.Subscribe" ->
            <<LockOp("Lock", "Broker.mu"), LockOp("Unlock", "Broker.mu")>>
      [] op \in {"Broker.fanOutTick", "Broker.GetSubscriberCount"} ->
            <<LockOp("RLock", "Broker.mu"), LockOp("RUnlock", "Broker.mu")>>
      [] op = "TriggerBus.Subscribe" ->
            <<LockOp("Lock", "TriggerBus.mu"), LockOp("Unlock", "TriggerBus.mu")>>
      [] op \in {"TriggerBus.fanOutTrigger", "TriggerBus.GetSubscriberCount"} ->
            <<LockOp("RLock", "TriggerBus.mu"), LockOp("RUnlock", "TriggerBus.mu")>>

\* The calls a goroutine makes.
TaskOps(t) ==
    CASE t = "processTicks" -> {"Engine.evaluateTick"}
      [] t = "distributeTriggers" -> {"TriggerBus.fanOutTrigger"}
      [] t = "distributeTicks" -> {"Broker.fanOutTick"}
      [] t = "cleanup" -> {"Engine.CleanupCooldowns"}
      [] t \in {"api1", "api2"} ->
            {"Engine.Stop", "Engine.GetStats", "Store.Update", "Store.Get",
             "Broker.Subscribe", "Broker.GetSubscriberCount",
             "TriggerBus.Subscribe", "TriggerBus.GetSubscriberCount"}

\* The lock operations a goroutine has done in its call so far.
Done(t) == SubSeq(LockScript(tasks[t].op), 1, tasks[t].pos)

\* The position of the acquisition by which t holds mu, or 0.
HeldAt(t, mu) ==
    LET d == Done(t)
        I == {i \in 1..Len(d) : d[i].mu = mu /\ \A j \in (i + 1)..Len(d) : d[j].mu # mu}
    IN IF \E i \in I : d[i].act \in {"Lock", "RLock"}
       THEN CHOOSE i \in I : TRUE
       ELSE 0

HeldBy(t) == {mu \in Mutexes : HeldAt(t, mu) > 0}

HoldsWrite(t, mu) == HeldAt(t, mu) > 0 /\ Done(t)[HeldAt(t, mu)].act = "Lock"

InCall(t) == tasks[t].op # "idle"

NextOp(t) == LockScript(tasks[t].op)[tasks[t].pos + 1]

Acquiring(t) == InCall(t) /\ NextOp(t).act \in {"Lock", "RLock"}

\* sync.RWMutex: Lock waits for every holder, RLock for a writer.
CanAcquire(t) ==
    IF NextOp(t).act = "Lock"
    THEN \A o \in Tasks : NextOp(t).mu \notin HeldBy(o)
    ELSE \A o \in Tasks : ~HoldsWrite(o, NextOp(t).mu)

Blocked(t) == Acquiring(t) /\ ~CanAcquire(t)

\* The goroutine after its next lock operation: back to idle after the last.
Advance(t) ==
    IF tasks[t].pos + 1 = Len(LockScript(tasks[t].op))
    THEN IdleTask
    ELSE [tasks[t] EXCEPT !.pos = @ + 1]

Call(t, op) ==
    /\ Alive
    /\ ~InCall(t)
    /\ op \in TaskOps(t)
    /\ tasks' = [tasks EXCEPT ![t] = [op |-> op, pos |-> 0]]
    /\ UNCHANGED <<storeVars, held, now, ret, panicked, fanVars, cooldownMap, focus, feed>>

Acquire(t) ==
    /\ Alive
    /\ Acquiring(t)
    /\ CanAcquire(t)
    /\ tasks' = [tasks EXCEPT ![t] = Advance(t)]
    /\ UNCHANGED <<storeVars, held, now, ret, panicked, fanVars, cooldownMap, focus, feed>>

Release(t) ==
    /\ Alive
    /\ InCall(t)
    /\ NextOp(t).act \in {"Unlock", "RUnlock"}
    /\ tasks' = [tasks EXCEPT ![t] = Advance(t)]
    /\ UNCHANGED <<storeVars, held, now, ret, panicked, fanVars, cooldownMap, focus, feed>>

\* ---------------------------------------------------------------- clock
ClockTick ==
    /\ Alive
    /\ now < MaxTime
    /\ now' = now + 1
    /\ UNCHANGED <<storeVars, held, ret, panicked, fanVars, cooldownMap, focus, feed, tasks>>

\* ---------------------------------------------------------------- Init
Init ==
    /\ alerts = EmptyMap
    /\ symbolIndex = EmptyMap
    /\ held = <<>>
    /\ now = 0
    /\ ret = Ret("none", "none", "none")
    /\ panicked = "none"
    /\ running = [c \in Comp |-> FALSE]
    /\ stopChan = [c \in Comp |-> FALSE]
    /\ queue = [c \in Comp |-> <<>>]
    /\ queueClosed = [c \in Comp |-> FALSE]
    /\ ctxDone = [c \in Comp |-> FALSE]
    /\ loops = [c \in Comp |-> <<>>]
    /\ registry = [c \in Comp |-> EmptyMap]
    /\ objects = [o \in 1..MaxObjects |-> Free]
    /\ cooldownMap = EmptyMap
    /\ focus \in Comp
    /\ feed = <<>>
    /\ tasks = [t \in Tasks |-> IdleTask]

\* ---------------------------------------------------------------- callers
\* store.Create keeps the pointer it is given (s.alerts[alert.ID] = alert): the
\* caller that made the alert still holds the stored object and writes a field.
HolderMutateCreated(id, updates) ==
    /\ Alive
    /\ id \in DOMAIN alerts
    /\ alerts' = [alerts EXCEPT ![id] = ApplyUpdates(@, updates)]
    /\ ret' = Ret("caller", "write", "created")
    /\ UNCHANGED <<symbolIndex, held, now, panicked, fanVars, cooldownMap, focus, feed, tasks>>

\* A caller keeps what store.Get returned (alertCopy := *alert).
HolderGet(id) ==
    /\ Alive
    /\ held' = Get(id).val
    /\ ret' = Ret("store", "Get", Get(id).err)
    /\ UNCHANGED <<storeVars, now, panicked, fanVars, cooldownMap, focus, feed, tasks>>

\* ... and writes a field of that copy.
HolderMutateCopy(updates) ==
    /\ Alive
    /\ held # <<>>
    /\ held' = <<ApplyUpdates(held[1], updates)>>
    /\ ret' = Ret("caller", "write", "copy")
    /\ UNCHANGED <<storeVars, now, panicked, fanVars, cooldownMap, focus, feed, tasks>>

\* A caller asks the alert it holds whether a price triggers it.
CallShouldTrigger(price) ==
    /\ Alive
    /\ held # <<>>
    /\ ret' = Ret("alert", "ShouldTrigger",
                  IF ShouldTrigger(held[1], price) THEN "true" ELSE "false")
    /\ UNCHANGED <<storeVars, held, now, panicked, fanVars, cooldownMap, focus, feed, tasks>>

\* ---------------------------------------------------------------- inputs
BufferSizes == {1}

SymbolSets == {{"BTC"}, {"BTC", "ETH"}}

BrokerTicks == {NewTick(s, 1) : s \in Symbols}

\* Two field valuations that differ in every field.
FieldValues ==
    {[symbol |-> "BTC", comparator |-> "GT", threshold |-> 100, note |-> "", enabled |-> TRUE],
     [symbol |-> "ETH", comparator |-> "EQ", threshold |-> 200, note |-> "n", enabled |-> FALSE]}

StoreAlerts ==
    {[id |-> id, symbol |-> v.symbol, comparator |-> v.comparator,
      threshold |-> v.threshold, note |-> v.note, enabled |-> v.enabled,
      lastTrigger |-> <<>>] : id \in AlertIds, v \in FieldValues}

\* The update sets: any subset of the fields, with the values of a valuation.
StoreUpdates == {[f \in F |-> v[f]] : F \in SUBSET Fields, v \in FieldValues}

HolderAlerts == {NewAlertValue(id, "BTC", "GT", 100, "") : id \in AlertIds}

HolderUpdates == {[enabled |-> FALSE], [symbol |-> "ETH"]}

EngineAlertIds == {"a1"}

EngineAlerts == {NewAlertValue(id, "BTC", "GT", 100, "") : id \in EngineAlertIds}

EngineUpdates == {[enabled |-> b] : b \in BOOLEAN}

EngineTicks == {NewTick("BTC", 99), NewTick("BTC", 101)}

BusTriggers ==
    {[kind |-> "trigger", alert |-> NewAlertValue(id, "BTC", "GT", 100, ""),
      triggeredPrice |-> 101, timestamp |-> 0] : id \in AlertIds}

\* Alerts and prices for Alert.ShouldTrigger: every comparator and a value that
\* is none of them, enabled or not,
\* thresholds and prices up to five units of 0.0005 apart.
AlertThresholds == 98..102

AlertPrices == 97..103

AlertInputs ==
    {[id |-> "a1", symbol |-> "BTC", comparator |-> c, threshold |-> t, note |-> "",
      enabled |-> e, lastTrigger |-> <<>>] :
        c \in Comparators \cup {"OTHER"}, t \in AlertThresholds, e \in BOOLEAN}

\* The interest sets a subscriber of component c is created with (the
\* TriggerBus has none).
SubscriberSymbols(c) == IF c = "broker" THEN SymbolSets ELSE {{}}

\* What a producer can hand to Publish / ProcessTick of component c.
Items(c) == IF c = "broker" THEN BrokerTicks ELSE IF c = "bus" THEN BusTriggers ELSE EngineTicks

\* ---------------------------------------------------------------- specifications
NextStore ==
    \/ \E a \in StoreAlerts : Create(a)
    \/ \E id \in AlertIds, u \in StoreUpdates : Update(id, u)
    \/ \E id \in AlertIds : Delete(id)
    \/ \E id \in AlertIds : MarkTriggered(id)

InitStore == Init /\ focus = "engine"

SpecStore == InitStore /\ [][NextStore]_vars

NextHolder ==
    \/ \E a \in HolderAlerts : Create(a)
    \/ \E id \in AlertIds, u \in HolderUpdates : Update(id, u)
    \/ \E id \in AlertIds : Delete(id)
    \/ \E id \in AlertIds : MarkTriggered(id)
    \/ \E id \in AlertIds : HolderGet(id)
    \/ \E u \in HolderUpdates : HolderMutateCopy(u)
    \/ \E id \in AlertIds, u \in HolderUpdates : HolderMutateCreated(id, u)

InitHolder == Init /\ focus = "engine"

SpecHolder == InitHolder /\ [][NextHolder]_vars

NextBroker ==
    \/ Start("broker")
    \/ Stop("broker")
    \/ Cancel("broker")
    \/ \E id \in SubIds, syms \in SymbolSets, cap \in BufferSizes : Subscribe("broker", id, syms, cap)
    \/ \E id \in SubIds : Unsubscribe("broker", id)
    \/ \E id \in SubIds, syms \in SymbolSets : UpdateSubscription(id, syms)
    \/ \E t \in BrokerTicks : Publish("broker", t)
    \/ \E k \in 1..Len(loops["broker"]) : LoopCancelled("broker", k)
    \/ \E k \in 1..Len(loops["broker"]) : LoopStopped("broker", k)
    \/ \E k \in 1..Len(loops["broker"]) : LoopReceive("broker", k)
    \/ \E k \in 1..Len(loops["broker"]) : FanOut("broker", k)
    \/ \E o \in DOMAIN objects : ConsumerRecv(o)

InitBroker == Init /\ focus = "broker"

SpecBroker == InitBroker /\ [][NextBroker]_vars

NextBus ==
    \/ Start("bus")
    \/ Stop("bus")
    \/ Cancel("bus")
    \/ \E id \in SubIds, cap \in BufferSizes : Subscribe("bus", id, {}, cap)
    \/ \E id \in SubIds : Unsubscribe("bus", id)
    \/ \E t \in BusTriggers : Publish("bus", t)
    \/ \E k \in 1..Len(loops["bus"]) : LoopCancelled("bus", k)
    \/ \E k \in 1..Len(loops["bus"]) : LoopStopped("bus", k)
    \/ \E k \in 1..Len(loops["bus"]) : LoopReceive("bus", k)
    \/ \E k \in 1..Len(loops["bus"]) : FanOut("bus", k)
    \/ \E o \in DOMAIN objects : ConsumerRecv(o)

InitBus == Init /\ focus = "bus"

SpecBus == InitBus /\ [][NextBus]_vars

\* The Engine with its Store; the TriggerBus is not started here, so that its
\* queue keeps what the Engine published.
NextEngine ==
    \/ \E a \in EngineAlerts : Create(a)
    \/ \E id \in EngineAlertIds, u \in EngineUpdates : Update(id, u)
    \/ \E id \in EngineAlertIds : Delete(id)
    \/ Start("engine")
    \/ Stop("engine")
    \/ \E t \in EngineTicks : ProcessTick(t)
    \/ \E k \in 1..Len(loops["engine"]) : LoopStopped("engine", k)
    \/ \E k \in 1..Len(loops["engine"]) : LoopReceive("engine", k)
    \/ \E k \in 1..Len(loops["engine"]) : EvaluateTick(k)
    \/ \E k \in 1..Len(loops["engine"]) : CheckAlert(k)
    \/ \E k \in 1..Len(loops["engine"]) : triggerAlert(k)
    \/ CleanupCooldowns
    \/ ClockTick

InitEngine == Init /\ focus = "engine"

SpecEngine == InitEngine /\ [][NextEngine]_vars

\* The Store under its callers while time passes: the transport layer's
\* Create, Update and Delete and the Engine's MarkTriggered.
NextTimedStore ==
    \/ \E a \in StoreAlerts : Create(a)
    \/ \E id \in AlertIds, u \in HolderUpdates : Update(id, u)
    \/ \E id \in AlertIds : Delete(id)
    \/ \E id \in AlertIds : MarkTriggered(id)
    \/ ClockTick

InitTimedStore == Init /\ focus = "engine"

SpecTimedStore == InitTimedStore /\ [][NextTimedStore]_vars

\* The Engine at work on two alerts of one symbol, with the periodic cleanup
\* routine of main: the Store holds a1 and a2 and the Engine is started.
InitCleanup ==
    /\ alerts = [id \in AlertIds |-> NewAlertValue(id, "BTC", "GT", 100, "")]
    /\ symbolIndex = MapPut(EmptyMap, "BTC", <<"a1", "a2">>)
    /\ held = <<>>
    /\ now = 0
    /\ ret = Ret("engine", "Start", "ok")
    /\ panicked = "none"
    /\ running = [c \in Comp |-> c = "engine"]
    /\ stopChan = [c \in Comp |-> FALSE]
    /\ queue = [c \in Comp |-> <<>>]
    /\ queueClosed = [c \in Comp |-> FALSE]
    /\ ctxDone = [c \in Comp |-> FALSE]
    /\ loops = [c \in Comp |-> IF c = "engine" THEN <<IdleLoop>> ELSE <<>>]
    /\ registry = [c \in Comp |-> EmptyMap]
    /\ objects = [o \in 1..MaxObjects |-> Free]
    /\ cooldownMap = EmptyMap
    /\ focus = "engine"
    /\ feed = <<>>
    /\ tasks = [t \in Tasks |-> IdleTask]

NextCleanup ==
    \/ \E t \in EngineTicks : ProcessTick(t)
    \/ \E k \in 1..Len(loops["engine"]) : LoopReceive("engine", k)
    \/ \E k \in 1..Len(loops["engine"]) : EvaluateTick(k)
    \/ \E k \in 1..Len(loops["engine"]) : CheckAlert(k)
    \/ \E k \in 1..Len(loops["engine"]) : triggerAlert(k)
    \/ CleanupCooldowns
    \/ ClockTick

SpecCleanup == InitCleanup /\ [][NextCleanup]_vars

\* The Engine and the TriggerBus it publishes to, both started as main starts
\* them: the Store holds a1 and a2, and each component runs its dispatch loop.
InitPipeline ==
    /\ alerts = [id \in AlertIds |-> NewAlertValue(id, "BTC", "GT", 100, "")]
    /\ symbolIndex = MapPut(EmptyMap, "BTC", <<"a1", "a2">>)
    /\ held = <<>>
    /\ now = 0
    /\ ret = Ret("engine", "Start", "ok")
    /\ panicked = "none"
    /\ running = [c \in Comp |-> c \in {"engine", "bus"}]
    /\ stopChan = [c \in Comp |-> FALSE]
    /\ queue = [c \in Comp |-> <<>>]
    /\ queueClosed = [c \in Comp |-> FALSE]
    /\ ctxDone = [c \in Comp |-> FALSE]
    /\ loops = [c \in Comp |-> IF c \in {"engine", "bus"} THEN <<IdleLoop>> ELSE <<>>]
    /\ registry = [c \in Comp |-> EmptyMap]
    /\ objects = [o \in 1..MaxObjects |-> Free]
    /\ cooldownMap = EmptyMap
    /\ focus = "engine"
    /\ feed = <<>>
    /\ tasks = [t \in Tasks |-> IdleTask]

NextPipeline ==
    \/ \E t \in EngineTicks : ProcessTick(t)
    \/ \E k \in 1..Len(loops["engine"]) : LoopReceive("engine", k)
    \/ \E k \in 1..Len(loops["engine"]) : EvaluateTick(k)
    \/ \E k \in 1..Len(loops["engine"]) : CheckAlert(k)
    \/ \E k \in 1..Len(loops["engine"]) : triggerAlert(k)
    \/ \E k \in 1..Len(loops["bus"]) : LoopReceive("bus", k)
    \/ \E k \in 1..Len(loops["bus"]) : FanOut("bus", k)
    \/ ClockTick

SpecPipeline == InitPipeline /\ [][NextPipeline]_vars

\* One step of the dispatch goroutine of component c: the receive of its
\* select, and the fan-out or the evaluation that follows it.
DispatchStep(c) ==
    \E k \in 1..Len(loops[c]) :
        \/ LoopReceive(c, k)
        \/ FanOut(c, k)
        \/ c = "engine" /\ EvaluateTick(k)
        \/ c = "engine" /\ CheckAlert(k)
        \/ c = "engine" /\ triggerAlert(k)

\* A component that is started and then neither stopped nor cancelled, with its
\* producers, its subscribers (who may read their inboxes or never do) and the
\* Store of the Engine.
NextProgress ==
    \/ \E c \in Comp : focus = c /\ Start(c)
    \/ \E c \in FanComp : focus = c /\
          \E id \in SubIds, syms \in SubscriberSymbols(c), cap \in BufferSizes :
              Subscribe(c, id, syms, cap)
    \/ \E c \in FanComp : focus = c /\ \E id \in SubIds : Unsubscribe(c, id)
    \/ \E c \in FanComp : focus = c /\ \E t \in Items(c) : Publish(c, t)
    \/ focus = "engine" /\ \E t \in EngineTicks : ProcessTick(t)
    \/ focus = "engine" /\ \E a \in EngineAlerts : Create(a)
    \/ \E c \in Comp : focus = c /\ DispatchStep(c)
    \/ \E o \in DOMAIN objects : ConsumerRecv(o)

InitProgress == Init /\ focus \in Comp

\* The Go scheduler runs a goroutine that stays runnable: weak fairness of each
\* dispatch goroutine.
FairProgress ==
    InitProgress /\ [][NextProgress]_vars /\ \A c \in Comp : WF_vars(DispatchStep(c))

\* The Engine at work on two alerts of one symbol, which UpdateAlert enables
\* and disables while ticks are evaluated.
NextEvaluation ==
    \/ \E id \in AlertIds, u \in EngineUpdates : Update(id, u)
    \/ \E t \in EngineTicks : ProcessTick(t)
    \/ \E k \in 1..Len(loops["engine"]) : LoopReceive("engine", k)
    \/ \E k \in 1..Len(loops["engine"]) : EvaluateTick(k)
    \/ \E k \in 1..Len(loops["engine"]) : CheckAlert(k)
    \/ \E k \in 1..Len(loops["engine"]) : triggerAlert(k)
    \/ ClockTick

SpecEvaluation == InitCleanup /\ [][NextEvaluation]_vars

\* The goroutines of the server and the locks they take.
NextLocks ==
    \/ \E t \in Tasks : \E op \in TaskOps(t) : Call(t, op)
    \/ \E t \in Tasks : Acquire(t)
    \/ \E t \in Tasks : Release(t)

InitLocks == Init /\ focus = "engine"

SpecLocks == InitLocks /\ [][NextLocks]_vars

\* Broker, TriggerBus and Engine, one instance at a time: focus is the component
\* a behaviour exercises.
Next ==
    \/ \E c \in Comp : focus = c /\ Start(c)
    \/ \E c \in Comp : focus = c /\ Stop(c)
    \/ \E c \in FanComp : focus = c /\ Cancel(c)
    \/ \E c \in FanComp : focus = c /\
          \E id \in SubIds, syms \in SubscriberSymbols(c), cap \in BufferSizes :
              Subscribe(c, id, syms, cap)
    \/ \E c \in FanComp : focus = c /\ \E id \in SubIds : Unsubscribe(c, id)
    \/ focus = "broker" /\ \E id \in SubIds, syms \in SymbolSets : UpdateSubscription(id, syms)
    \/ \E c \in FanComp : focus = c /\ \E t \in Items(c) : Publish(c, t)
    \/ focus = "engine" /\ \E t \in EngineTicks : ProcessTick(t)
    \/ \E c \in FanComp : focus = c /\ \E k \in 1..Len(loops[c]) : LoopCancelled(c, k)
    \/ \E c \in Comp : focus = c /\ \E k \in 1..Len(loops[c]) : LoopStopped(c, k)
    \/ \E c \in Comp : focus = c /\ \E k \in 1..Len(loops[c]) : LoopReceive(c, k)
    \/ \E c \in FanComp : focus = c /\ \E k \in 1..Len(loops[c]) : FanOut(c, k)
    \/ \E o \in DOMAIN objects : ConsumerRecv(o)
    \/ focus = "engine" /\ \E a \in EngineAlerts : Create(a)
    \/ focus = "engine" /\ \E id \in EngineAlertIds, u \in EngineUpdates : Update(id, u)
    \/ focus = "engine" /\ \E id \in EngineAlertIds : Delete(id)
    \/ focus = "engine" /\ \E k \in 1..Len(loops["engine"]) : EvaluateTick(k)
    \/ focus = "engine" /\ \E k \in 1..Len(loops["engine"]) : CheckAlert(k)
    \/ focus = "engine" /\ \E k \in 1..Len(loops["engine"]) : triggerAlert(k)
    \/ focus = "engine" /\ CleanupCooldowns
    \/ focus = "engine" /\ ClockTick

Spec == Init /\ [][Next]_vars

InitFan == Init /\ focus \in FanComp

\* Broker and TriggerBus under Start, Stop, Subscribe, Unsubscribe and Publish,
\* with consumers that keep reading their inboxes.
NextDrain ==
    \/ \E c \in FanComp : focus = c /\ Start(c)
    \/ \E c \in FanComp : focus = c /\ Stop(c)
    \/ \E c \in FanComp : focus = c /\
          \E id \in SubIds, syms \in SubscriberSymbols(c), cap \in BufferSizes :
              Subscribe(c, id, syms, cap)
    \/ \E c \in FanComp : focus = c /\ \E id \in SubIds : Unsubscribe(c, id)
    \/ \E c \in FanComp : focus = c /\ \E t \in Items(c) : Publish(c, t)
    \/ \E c \in FanComp : focus = c /\ \E k \in 1..Len(loops[c]) : LoopStopped(c, k)
    \/ \E c \in FanComp : focus = c /\ \E k \in 1..Len(loops[c]) : LoopReceive(c, k)
    \/ \E c \in FanComp : focus = c /\ \E k \in 1..Len(loops[c]) : FanOut(c, k)
    \/ \E o \in DOMAIN objects : ConsumerRecv(o)

FairFan == InitFan /\ [][NextDrain]_vars /\ \A o \in 1..MaxObjects : WF_vars(ConsumerRecv(o))

\* ---------------------------------------------------------------- scenario
ScenarioBuffer == 2

ScenarioAlert == NewAlertValue("a1", "BTC", "GT", 50000, "")

ScenarioTicks ==
    <<NewTick("BTC", 49999), NewTick("BTC", 50001), NewTick("BTC", 50002),
      NewTick("BTC", 50003)>>

\* One enabled alert in the Store, the TriggerBus started with one subscriber,
\* the Engine started, and four ticks to be fed.
InitScenario ==
    /\ alerts = MapPut(EmptyMap, "a1", ScenarioAlert)
    /\ symbolIndex = MapPut(EmptyMap, "BTC", <<"a1">>)
    /\ held = <<>>
    /\ now = 0
    /\ ret = Ret("none", "none", "none")
    /\ panicked = "none"
    /\ running = [c \in Comp |-> c \in {"bus", "engine"}]
    /\ stopChan = [c \in Comp |-> FALSE]
    /\ queue = [c \in Comp |-> <<>>]
    /\ queueClosed = [c \in Comp |-> FALSE]
    /\ ctxDone = [c \in Comp |-> FALSE]
    /\ loops = [c \in Comp |-> IF c \in {"bus", "engine"} THEN <<IdleLoop>> ELSE <<>>]
    /\ registry = [c \in Comp |-> IF c = "bus" THEN MapPut(EmptyMap, "s1", 1) ELSE EmptyMap]
    /\ objects = [o \in 1..MaxObjects |->
                     IF o = 1 THEN NewSubscriber("bus", "s1", {}, ScenarioBuffer) ELSE Free]
    /\ cooldownMap = EmptyMap
    /\ focus = "engine"
    /\ feed = ScenarioTicks
    /\ tasks = [t \in Tasks |-> IdleTask]

\* The Engine has evaluated every tick it was given.
EngineQuiet ==
    /\ queue["engine"] = <<>>
    /\ \A k \in 1..Len(loops["engine"]) : loops["engine"][k].pc = "select"

\* The feeder hands the next tick to Engine.ProcessTick once the tick before it
\* is evaluated and its trigger has left the queue of the TriggerBus; the last
\* tick is fed when the cooldown has passed since the first trigger.
FeedTick ==
    /\ Len(feed) > 0
    /\ EngineQuiet
    /\ queue["bus"] = <<>>
    /\ (Len(feed) = 1 /\ "a1" \in DOMAIN cooldownMap) => now - cooldownMap["a1"] >= Cooldown
    /\ Send("engine", Head(feed))
    /\ feed' = Tail(feed)

\* The clock of the scenario: any time passes before the second tick, less than
\* the cooldown between the second and the third, any time before the fourth.
ScenarioClock ==
    /\ EngineQuiet
    /\ \/ Len(feed) >= 3 /\ now < MaxTime - Cooldown
       \/ /\ Len(feed) = 2
          /\ "a1" \in DOMAIN cooldownMap
          /\ now + 1 - cooldownMap["a1"] < Cooldown
       \/ Len(feed) = 1
    /\ ClockTick

NextScenario ==
    \/ FeedTick
    \/ ScenarioClock
    \/ \E k \in 1..Len(loops["engine"]) : LoopReceive("engine", k)
    \/ \E k \in 1..Len(loops["engine"]) : EvaluateTick(k)
    \/ \E k \in 1..Len(loops["engine"]) : CheckAlert(k)
    \/ \E k \in 1..Len(loops["engine"]) : triggerAlert(k)
    \/ \E k \in 1..Len(loops["bus"]) : LoopReceive("bus", k)
    \/ \E k \in 1..Len(loops["bus"]) : FanOut("bus", k)

SpecScenario == InitScenario /\ [][NextScenario]_vars

\* ---------------------------------------------------------------- Alert.ShouldTrigger
\* A caller holds any alert of AlertInputs and evaluates any price of
\* AlertPrices against it.
InitAlert ==
    /\ alerts = EmptyMap
    /\ symbolIndex = EmptyMap
    /\ held \in {<<a>> : a \in AlertInputs}
    /\ now = 0
    /\ ret = Ret("none", "none", "none")
    /\ panicked = "none"
    /\ running = [c \in Comp |-> FALSE]
    /\ stopChan = [c \in Comp |-> FALSE]
    /\ queue = [c \in Comp |-> <<>>]
    /\ queueClosed = [c \in Comp |-> FALSE]
    /\ ctxDone = [c \in Comp |-> FALSE]
    /\ loops = [c \in Comp |-> <<>>]
    /\ registry = [c \in Comp |-> EmptyMap]
    /\ objects = [o \in 1..MaxObjects |-> Free]
    /\ cooldownMap = EmptyMap
    /\ focus = "engine"
    /\ feed = <<>>
    /\ tasks = [t \in Tasks |-> IdleTask]

NextShouldTrigger == \E p \in AlertPrices : CallShouldTrigger(p)

SpecAlert == InitAlert /\ [][NextShouldTrigger]_vars

\* ================================================================ properties
Count(seq, x) == Cardinality({i \in 1..Len(seq) : seq[i] = x})

\* The alert that dispatch loop k of the Engine is working on.
CurrentAlert(k) == loops["engine"][k].alerts[loops["engine"][k].i]

\* C1. Cooldown window: the Engine publishes a trigger for an alert only if the
\* cooldown map holds no entry for the alert id or the time elapsed since that
\* entry is at least the cooldown, so that two qualifying ticks evaluated less
\* than the cooldown apart yield one trigger: whenever a dispatch loop is about
\* to run triggerAlert for an alert, that alert is outside its cooldown window.
C1_FiresOnlyOutsideCooldown ==
    \A k \in 1..Len(loops["engine"]) :
        LoopAt("engine", k, "trigger") =>
            \/ CurrentAlert(k).id \notin DOMAIN cooldownMap
            \/ now - cooldownMap[CurrentAlert(k).id] >= Cooldown

\* C2. Store index consistency: in every reachable state of the Store an alert
\* id appears in symbolIndex[s] if and only if the alert with that id exists in
\* the primary map and its current symbol is s, and it appears there at most
\* once.
C2_IndexConsistent ==
    \A s \in Symbols, id \in AlertIds :
        (IF s \in DOMAIN symbolIndex THEN Count(symbolIndex[s], id) ELSE 0)
            = (IF id \in DOMAIN alerts /\ alerts[id].symbol = s THEN 1 ELSE 0)

\* Both alerts were created under BTC and a1, the older one, was renamed to ETH
\* before a2 and triggered: the BTC bucket is gone, the ETH bucket holds a1
\* before a2.
C2_Renamed ==
    /\ DOMAIN alerts = AlertIds
    /\ DOMAIN symbolIndex = {"ETH"}
    /\ symbolIndex["ETH"] = <<"a1", "a2">>
    /\ alerts["a1"].lastTrigger # <<>>
    /\ ret = Ret("store", "Update", "ok")

\* C3. Value isolation of the Store: a holder of an Alert value passed to
\* Create or returned by Get cannot change the Store's state by mutating that
\* value; the Store's alerts change only through Create, Update, Delete and
\* MarkTriggered.
C3_HolderCannotChangeStore ==
    [][(\/ \E id \in AlertIds, u \in HolderUpdates : HolderMutateCreated(id, u)
        \/ \E u \in HolderUpdates : HolderMutateCopy(u))
       => UNCHANGED storeVars]_vars

\* C4. Non-blocking ingestion: every call of Broker.Publish, TriggerBus.Publish
\* and Engine.ProcessTick returns normally, having appended the item to the
\* component's queue when it had room and having left the queue unchanged when
\* it was at capacity.
C4_PublishAppendsOrDrops ==
    [][\A c \in Comp : \A item \in Items(c) :
          Publish(c, item) =>
              /\ panicked' = "none"
              /\ queue' = IF Len(queue[c]) < MaxQueue
                          THEN [queue EXCEPT ![c] = Append(@, item)]
                          ELSE queue]_vars

\* C5. Per-subscriber backpressure isolation: in one fan-out of an item by the
\* Broker or the TriggerBus every interested subscriber whose inbox is open and
\* has room receives the item, and the inbox of every other one is left
\* unchanged.
C5_FanOutServesEveryInboxWithRoom ==
    [][\A c \in FanComp : \A k \in 1..Len(loops[c]) :
          (FanOut(c, k) /\ loops[c][k].item # NilItem) =>
              \A o \in Targets(c, loops[c][k].item) :
                  objects'[o].inbox =
                      IF ~objects[o].closed /\ HasRoom(o)
                      THEN Append(objects[o].inbox, loops[c][k].item)
                      ELSE objects[o].inbox]_vars

\* C6. Broker symbol isolation: a tick is placed into a subscriber's inbox only
\* if the tick's symbol is in that subscriber's interest set at the moment of
\* the fan-out.
C6_SymbolIsolation ==
    [][\A o \in DOMAIN objects :
          (/\ objects[o].comp = "broker"
           /\ objects'[o].comp = "broker"
           /\ Len(objects'[o].inbox) > Len(objects[o].inbox)) =>
              LET tick == objects'[o].inbox[Len(objects'[o].inbox)]
              IN /\ objects'[o].inbox = Append(objects[o].inbox, tick)
                 /\ tick.symbol \in objects[o].symbols]_vars

\* A Broker fan-out of an ETH tick has served the subscriber interested in BTC
\* and ETH and has skipped the one interested in BTC only.
C6_EthTickSkipsBtcSubscriber ==
    /\ focus = "broker"
    /\ DOMAIN registry["broker"] = SubIds
    /\ objects[registry["broker"]["s1"]].symbols = {"BTC"}
    /\ objects[registry["broker"]["s1"]].inbox = <<>>
    /\ ~objects[registry["broker"]["s1"]].closed
    /\ objects[registry["broker"]["s2"]].symbols = {"BTC", "ETH"}
    /\ objects[registry["broker"]["s2"]].inbox = <<NewTick("ETH", 1)>>
    /\ queue["broker"] = <<>>
    /\ \A k \in 1..Len(loops["broker"]) : loops["broker"][k].pc = "select"

\* C7. Unsubscribe: if the id is registered, Unsubscribe closes that
\* subscriber's inbox and removes the id from the registry; if the id is not
\* registered, it leaves the registry and all inboxes unchanged.
C7_UnsubscribeClosesAndRemoves ==
    [][\A c \in FanComp : \A id \in SubIds :
          Unsubscribe(c, id) =>
              IF id \in DOMAIN registry[c]
              THEN /\ id \notin DOMAIN registry'[c]
                   /\ objects'[registry[c][id]].closed
                   /\ panicked' = "none"
              ELSE UNCHANGED <<registry, objects>>]_vars

\* C8. Exactly-once close: under any interleaving of Start, Subscribe,
\* Unsubscribe and Stop on one Broker or TriggerBus, no inbox and no internal
\* channel is closed a second time (Go panics on a second close).
C8_ClosedAtMostOnce == panicked # "close of closed channel"

\* C9. Clean completion on Stop: when Stop returns on a started Broker or
\* TriggerBus, the internal queue and the inbox of every subscriber registered
\* at that moment are closed; nothing is added to a closed inbox; and a consumer
\* that keeps reading a closed inbox drains it (and then reads ok = false).
C9_CleanCompletion ==
    /\ [][\A c \in FanComp :
             (Stop(c) /\ running[c] /\ panicked' = "none") =>
                 /\ queueClosed'[c]
                 /\ \A o \in Registered(c) : objects'[o].closed]_vars
    /\ [][\A o \in DOMAIN objects :
             (objects[o].comp # "free" /\ objects[o].closed) =>
                 Len(objects'[o].inbox) <= Len(objects[o].inbox)]_vars
    /\ \A o \in 1..MaxObjects :
           [](objects[o].closed => <>(Len(objects[o].inbox) = 0 \/ ~Alive))

\* Stop has returned on a started component and left a registered subscriber
\* closed with an item still to be read.
C9_StoppedWithUnreadItem ==
    \E c \in FanComp :
        /\ ret = Ret(c, "Stop", "ok")
        /\ queueClosed[c]
        /\ \E o \in Registered(c) : objects[o].closed /\ Len(objects[o].inbox) > 0

\* C10. Stop is idempotent: Stop on a Broker, TriggerBus or Engine that is not
\* running (never started, or already stopped) changes no state and closes
\* nothing.
C10_StopWhenNotRunning ==
    [][\A c \in Comp :
          (Stop(c) /\ ~running[c]) =>
              UNCHANGED <<alerts, symbolIndex, held, now, panicked, running, stopChan,
                          queue, queueClosed, ctxDone, loops, registry, objects,
                          cooldownMap, focus, feed, tasks>>]_vars

\* A second Stop has returned on a component that was started and stopped.
C10_StoppedTwice ==
    \E c \in Comp :
        /\ ret = Ret(c, "Stop", "noop")
        /\ stopChan[c]
        /\ queueClosed[c]
        /\ panicked = "none"

\* C11. Start launches the dispatch loop exactly once per instance: over any
\* sequence of Start and Stop calls on one Broker, TriggerBus or Engine, the
\* dispatch loop is launched at most once, so that at most one dispatch task
\* ever exists for the instance.
C11_LaunchedAtMostOnce == \A c \in Comp : Len(loops[c]) <= 1

\* C12. Subscribe replaces on id collision: Subscribe on a running Broker or
\* TriggerBus always succeeds; if the id is already registered, the previous
\* subscriber's inbox is closed, and afterwards the registry maps the id to the
\* new, open and empty subscriber and every other id to what it mapped to.
C12_SubscribeReplaces ==
    [][\A c \in FanComp : \A id \in SubIds, syms \in SubscriberSymbols(c), cap \in BufferSizes :
          (Subscribe(c, id, syms, cap) /\ running[c]) =>
              /\ panicked' = "none"
              /\ id \in DOMAIN registry'[c]
              /\ objects'[registry'[c][id]] = NewSubscriber(c, id, syms, cap)
              /\ id \in DOMAIN registry[c] =>
                     /\ registry[c][id] # registry'[c][id]
                     /\ objects'[registry[c][id]].closed
              /\ \A j \in DOMAIN registry[c] \ {id} :
                     j \in DOMAIN registry'[c] /\ registry'[c][j] = registry[c][j]]_vars

\* The dispatch loops of component c that hold an accepted item taken from the
\* queue and not yet fanned out or evaluated to the end.
Processing(c) ==
    {k \in 1..Len(loops[c]) :
        loops[c][k].pc \in {"work", "check", "trigger"} /\ loops[c][k].item # NilItem}

\* C13. FIFO processing: within one Broker, TriggerBus or Engine instance the
\* items are taken from the queue and processed one at a time, in the order
\* they were accepted: an item is taken only after the one taken before it has
\* been processed to the end, so that at most one item is in processing.
C13_OneItemAtATime == \A c \in Comp : Cardinality(Processing(c)) <= 1

\* C14. MarkTriggered failure does not stop the trigger: when the alert was
\* deleted from the Store after the Engine fetched it and before triggerAlert
\* calls MarkTriggered, MarkTriggered fails with NotFound and leaves the Store
\* unchanged, the Engine still hands the trigger with the snapshot of the alert
\* to the TriggerBus (which queues it when it has room), and the dispatch loop
\* goes on.
C14_TriggerSurvivesDeletion ==
    [][\A k \in 1..Len(loops["engine"]) :
          (triggerAlert(k) /\ CurrentAlert(k).id \notin DOMAIN alerts) =>
              /\ ret' = Ret("engine", "triggerAlert", "NotFound")
              /\ UNCHANGED storeVars
              /\ queue'["bus"] =
                     IF Len(queue["bus"]) < MaxQueue
                     THEN Append(queue["bus"],
                                 NewAlertTrigger(CurrentAlert(k), loops["engine"][k].item.price))
                     ELSE queue["bus"]
              /\ panicked' = "none"
              /\ loops'["engine"][k].pc \in {"select", "check"}]_vars

\* The only dispatch loop has run triggerAlert for a1 after a1 was deleted: the
\* failure of MarkTriggered is logged, a1 is not in the Store and the bus holds
\* the trigger with the snapshot of a1, made at the time of the cooldown entry.
C14_PublishedAfterDeletion ==
    /\ ret = Ret("engine", "triggerAlert", "NotFound")
    /\ "a1" \notin DOMAIN alerts
    /\ Len(loops["engine"]) = 1
    /\ loops["engine"][1].pc = "select"
    /\ "a1" \in DOMAIN cooldownMap
    /\ queue["bus"] = <<[kind |-> "trigger",
                         alert |-> NewAlertValue("a1", "BTC", "GT", 100, ""),
                         triggeredPrice |-> 101, timestamp |-> cooldownMap["a1"]]>>
    /\ panicked = "none"

\* The triggers the Engine has published in the scenario, oldest first: those
\* in the subscriber's inbox, the one the TriggerBus is fanning out, and those
\* in its queue.
ScenarioTriggers ==
    objects[1].inbox
        \o (IF loops["bus"][1].pc = "work" /\ loops["bus"][1].item # NilItem
            THEN <<loops["bus"][1].item>> ELSE <<>>)
        \o queue["bus"]

ScenarioPrices == [i \in 1..Len(ScenarioTriggers) |-> ScenarioTriggers[i].triggeredPrice]

C16_DisabledNeverTriggers ==
    /\ [](\A a \in AlertInputs : \A p \in AlertPrices : ~a.enabled => ~ShouldTrigger(a, p))
    /\ [](\A id \in DOMAIN alerts : \A s \in Symbols :
             ~alerts[id].enabled =>
                 \A i \in 1..Len(GetEnabledBySymbol(s)) : GetEnabledBySymbol(s)[i].id # id)
    /\ [][\A k \in 1..Len(loops["engine"]) :
             (EvaluateTick(k) /\ panicked' = "none") =>
                 \A i \in 1..Len(loops'["engine"][k].alerts) :
                     LET a == loops'["engine"][k].alerts[i]
                     IN a.id \in DOMAIN alerts /\ alerts[a.id].enabled /\ a = alerts[a.id]]_vars
    /\ [][\A k \in 1..Len(loops["engine"]) :
             triggerAlert(k) =>
                 /\ CurrentAlert(k).enabled
                 /\ \/ queue'["bus"] = queue["bus"]
                    \/ queue'["bus"] =
                           Append(queue["bus"],
                                  NewAlertTrigger(CurrentAlert(k), loops["engine"][k].item.price))]_vars

\* The only dispatch loop of the Engine has evaluated a tick that ProcessTick
\* accepted while a1 was disabled, and nothing was published.
C16_TickSkippedDisabledAlert ==
    /\ ret = Ret("engine", "Publish", "queued")
    /\ "a1" \in DOMAIN alerts
    /\ ~alerts["a1"].enabled
    /\ Len(loops["engine"]) = 1
    /\ loops["engine"][1].pc = "select"
    /\ queue["engine"] = <<>>
    /\ queue["bus"] = <<>>
    /\ cooldownMap = EmptyMap
    /\ panicked = "none"

\* What the comparator of an alert says about a price, Epsilon standing for
\* 0.001.
Compares(comparator, price, threshold) ==
    \/ comparator = "GT" /\ price > threshold
    \/ comparator = "GTE" /\ price >= threshold
    \/ comparator = "LT" /\ price < threshold
    \/ comparator = "LTE" /\ price <= threshold
    \/ comparator = "EQ" /\ price - threshold < Epsilon /\ threshold - price < Epsilon

\* C17. Comparator semantics: for every enabled alert and every price,
\* ShouldTrigger returns true exactly when GT: price > threshold; GTE: price >=
\* threshold; LT: price < threshold; LTE: price <= threshold; EQ: |price -
\* threshold| < 0.001; and false for the unspecified comparator.
C17_ComparatorSemantics ==
    [][\A p \in AlertPrices :
          (CallShouldTrigger(p) /\ held[1].enabled) =>
              ret'.err = IF Compares(held[1].comparator, p, held[1].threshold)
                         THEN "true" ELSE "false"]_vars

\* ShouldTrigger has returned true for an enabled EQ alert.
C17_EqualWithinEpsilon ==
    /\ ret = Ret("alert", "ShouldTrigger", "true")
    /\ held # <<>>
    /\ held[1].enabled
    /\ held[1].comparator = "EQ"

\* The bucket of a symbol in the symbol index (empty when there is none).
Bucket(idx, symbol) == IF symbol \in DOMAIN idx THEN idx[symbol] ELSE <<>>

\* C18. Create collision: Create of an alert whose id is present in the Store
\* fails with AlreadyExists and leaves the primary map and the symbol index
\* unchanged; Create of an absent id inserts the alert into the map and into
\* the index bucket of its symbol.
C18_CreateCollision ==
    [][\A a \in StoreAlerts :
          Create(a) =>
              IF a.id \in DOMAIN alerts
              THEN /\ ret' = Ret("store", "Create", "AlreadyExists")
                   /\ UNCHANGED storeVars
              ELSE /\ ret' = Ret("store", "Create", "ok")
                   /\ alerts' = MapPut(alerts, a.id, a)
                   /\ Bucket(symbolIndex', a.symbol) = Append(Bucket(symbolIndex, a.symbol), a.id)
                   /\ \A s \in Symbols \ {a.symbol} :
                          Bucket(symbolIndex', s) = Bucket(symbolIndex, s)]_vars

\* Create has failed with AlreadyExists on a1, and the stored a1 is the one made
\* by earlier updates (BTC with the note "n", which no alert given to Create
\* has).
C18_CollisionKeptStoredAlert ==
    /\ ret = Ret("store", "Create", "AlreadyExists")
    /\ DOMAIN alerts = {"a1"}
    /\ alerts["a1"].symbol = "BTC"
    /\ alerts["a1"].note = "n"
    /\ symbolIndex = MapPut(EmptyMap, "BTC", <<"a1">>)

\* The ids of the alerts a listing operation returns.
ListedIds(list) == {list[i].id : i \in 1..Len(list)}

\* No listing operation of the Store returns an alert of this id.
Unlisted(id) ==
    /\ \A a \in GetAll : a.id # id
    /\ \A s \in Symbols : id \notin ListedIds(GetBySymbol(s))
    /\ \A s \in Symbols : id \notin ListedIds(GetEnabledBySymbol(s))

\* C19. Store round-trip: after a successful Create(a), and as long as no
\* Create, Update, Delete or MarkTriggered of that id intervenes, Get(a.id)
\* returns a value equal to a in every field; after a successful Delete(id),
\* Get(id) fails with NotFound and no GetAll, GetBySymbol or GetEnabledBySymbol
\* result holds the id.
C19_RoundTrip ==
    /\ [][\A a \in StoreAlerts :
             (ret' = Ret("store", "Create", "ok") /\ Create(a)) =>
                 Get(a.id)' = [err |-> "ok", val |-> <<a>>]]_vars
    /\ [][\A j \in AlertIds :
             Get(j)' # Get(j) =>
                 \/ j \in DOMAIN alerts' /\ Update(j, [f \in Fields |-> alerts'[j][f]])
                 \/ j \in DOMAIN alerts' /\ Create(alerts'[j])
                 \/ MarkTriggered(j)
                 \/ Delete(j)]_vars
    /\ [][\A id \in AlertIds :
             (ret' = Ret("store", "Delete", "ok") /\ Delete(id)) =>
                 (Get(id).err = "NotFound" /\ Unlisted(id))']_vars
    /\ [](\A id \in AlertIds : Get(id).err = "NotFound" => Unlisted(id))

\* Delete has succeeded on a1 while a2, created after it under the same symbol,
\* stays.
C19_DeletedOneOfTwo ==
    /\ ret = Ret("store", "Delete", "ok")
    /\ DOMAIN alerts = {"a2"}
    /\ alerts["a2"].symbol = "BTC"
    /\ symbolIndex = MapPut(EmptyMap, "BTC", <<"a2">>)
    /\ Get("a1").err = "NotFound"
    /\ Get("a2").err = "ok"

\* The update set that writes every field of the alert with the values it has
\* after the step: a step of Update(id, u), for any u, is a step of Update with
\* this set.
Written(id) == [f \in Fields |-> alerts'[id][f]]

\* C20. Symbol rename: after a successful Update of an alert that changes its
\* symbol from s1 to s2, GetBySymbol(s2) contains the alert (as updated) and
\* GetBySymbol(s1) does not; an Update that does not change the symbol leaves
\* the symbol index unchanged.
C20_SymbolRename ==
    [][\A id \in AlertIds : \A s1, s2 \in Symbols :
          (/\ id \in DOMAIN alerts
           /\ id \in DOMAIN alerts'
           /\ alerts[id].symbol = s1
           /\ alerts'[id].symbol = s2) =>
              \/ IF s1 # s2
                 THEN /\ \E i \in 1..Len(GetBySymbol(s2)') : GetBySymbol(s2)'[i] = alerts'[id]
                      /\ id \notin ListedIds(GetBySymbol(s1))'
                 ELSE symbolIndex' = symbolIndex
              \/ ~Update(id, Written(id))]_vars

\* a2 has been renamed from BTC to ETH, where a1 already was: GetBySymbol of
\* ETH returns a1 and a2, GetBySymbol of BTC returns nothing.
C20_RenamedIntoBucket ==
    /\ ret = Ret("store", "Update", "ok")
    /\ symbolIndex = MapPut(EmptyMap, "ETH", <<"a1", "a2">>)
    /\ ListedIds(GetBySymbol("ETH")) = {"a1", "a2"}
    /\ GetBySymbol("BTC") = <<>>
    /\ alerts["a1"].lastTrigger = <<>>
    /\ alerts["a2"].comparator = "GT"
    /\ alerts["a1"].comparator = "EQ"

C22_LastTriggerOnlyByMarkTriggered ==
    [][\A id \in AlertIds :
          /\ (id \notin DOMAIN alerts /\ id \in DOMAIN alerts') =>
                 alerts'[id].lastTrigger = <<>>
          /\ (/\ id \in DOMAIN alerts
              /\ id \in DOMAIN alerts'
              /\ alerts'[id].lastTrigger # alerts[id].lastTrigger) =>
                 (ret' = Ret("store", "MarkTriggered", "ok") /\ MarkTriggered(id))
          /\ (/\ ret' = Ret("store", "MarkTriggered", "ok")
              /\ id \in DOMAIN alerts
              /\ MarkTriggered(id)) =>
                 /\ alerts' = [alerts EXCEPT ![id].lastTrigger = <<now>>]
                 /\ symbolIndex' = symbolIndex]_vars

\* MarkTriggered has succeeded on a1 at time 2, over the time 1 an earlier call
\* had written; a1 keeps the fields an Update gave it, and a2 keeps its own
\* lastTrigger of time 1.
C22_MarkedAgainLater ==
    /\ ret = Ret("store", "MarkTriggered", "ok")
    /\ now = 2
    /\ DOMAIN alerts = {"a1", "a2"}
    /\ alerts["a1"] = [id |-> "a1", symbol |-> "ETH", comparator |-> "GT",
                       threshold |-> 100, note |-> "", enabled |-> TRUE,
                       lastTrigger |-> <<2>>]
    /\ alerts["a2"] = [id |-> "a2", symbol |-> "ETH", comparator |-> "EQ",
                       threshold |-> 200, note |-> "n", enabled |-> FALSE,
                       lastTrigger |-> <<1>>]

\* C23. NotFound leaves the Store unchanged: Get, Update, Delete and
\* MarkTriggered called with an id that is not in the Store each return
\* NotFound, and the primary map and symbol index are identical before and
\* after the call. (With an absent id Update does the same for every update
\* set: its step is the step of the empty one.)
C23_NotFoundLeavesStoreUnchanged ==
    /\ [](\A id \in AlertIds \ DOMAIN alerts :
             /\ Get(id) = [err |-> "NotFound", val |-> <<>>]
             /\ StoreMarkTriggered(id) = [err |-> "NotFound", alerts |-> alerts]
             /\ \A u \in StoreUpdates :
                    StoreUpdate(id, u) = [err |-> "NotFound", val |-> <<>>,
                                          alerts |-> alerts,
                                          symbolIndex |-> symbolIndex])
    /\ [][\A id \in AlertIds \ DOMAIN alerts :
             /\ Update(id, EmptyMap) =>
                    (ret' = Ret("store", "Update", "NotFound") /\ UNCHANGED storeVars)
             /\ Delete(id) =>
                    (ret' = Ret("store", "Delete", "NotFound") /\ UNCHANGED storeVars)
             /\ MarkTriggered(id) =>
                    (ret' = Ret("store", "MarkTriggered", "NotFound")
                     /\ UNCHANGED storeVars)]_vars
    /\ [][ret'.err = "NotFound" => UNCHANGED storeVars]_vars

\* MarkTriggered has failed with NotFound on a1, which was deleted, while the
\* Store holds a2, triggered before, and its index bucket.
C23_MarkTriggeredOfDeleted ==
    /\ ret = Ret("store", "MarkTriggered", "NotFound")
    /\ DOMAIN alerts = {"a2"}
    /\ alerts["a2"].lastTrigger = <<0>>
    /\ alerts["a2"].symbol = "ETH"
    /\ alerts["a2"].note = ""
    /\ symbolIndex = MapPut(EmptyMap, "ETH", <<"a2">>)
    /\ Get("a1").err = "NotFound"

\* The alerts in the Store whose symbol is this one.
StoredWithSymbol(symbol) ==
    {alerts[id] : id \in {j \in DOMAIN alerts : alerts[j].symbol = symbol}}

\* C24. GetEnabledBySymbol(s) returns exactly the alerts currently in the Store
\* whose symbol equals s and whose enabled flag is true, each once;
\* GetBySymbol(s) returns exactly those whose symbol equals s; for a symbol with
\* no alerts both return an empty result.
C24_SymbolQueriesExact ==
    \A s \in Symbols :
        /\ SeqToSet(GetBySymbol(s)) = StoredWithSymbol(s)
        /\ Len(GetBySymbol(s)) = Cardinality(StoredWithSymbol(s))
        /\ SeqToSet(GetEnabledBySymbol(s)) = {a \in StoredWithSymbol(s) : a.enabled}
        /\ Len(GetEnabledBySymbol(s)) = Cardinality({a \in StoredWithSymbol(s) : a.enabled})
        /\ StoredWithSymbol(s) = {} =>
               (GetBySymbol(s) = <<>> /\ GetEnabledBySymbol(s) = <<>>)

\* BTC has a2, enabled, and a1, renamed into it and disabled; ETH has nothing:
\* GetBySymbol of BTC returns both, GetEnabledBySymbol of BTC returns a2 alone,
\* and both are empty for ETH.
C24_TwoStoredOneEnabled ==
    /\ symbolIndex = MapPut(EmptyMap, "BTC", <<"a2", "a1">>)
    /\ DOMAIN alerts = {"a1", "a2"}
    /\ ~alerts["a1"].enabled
    /\ alerts["a2"].enabled
    /\ Len(GetBySymbol("BTC")) = 2
    /\ GetEnabledBySymbol("BTC") = <<alerts["a2"]>>
    /\ GetBySymbol("ETH") = <<>>
    /\ GetEnabledBySymbol("ETH") = <<>>

\* C25. Lock independence: in every reachable state no task holds the Engine's
\* cooldown-map lock and the Store's lock at the same time, and no task holds
\* locks of two different components (Broker registry, Trigger Bus registry,
\* Store, Engine) together; therefore no cross-component deadlock is reachable:
\* a task that waits for a lock holds none, and some holder of the lock it
\* waits for is not waiting itself.
C25_LockIndependence ==
    /\ \A t \in Tasks : ~({"Engine.mu", "Store.mu"} \subseteq HeldBy(t))
    /\ \A t \in Tasks : Cardinality(HeldBy(t)) <= 1
    /\ \A t \in Tasks :
           Blocked(t) =>
               /\ HeldBy(t) = {}
               /\ \E h \in Tasks \ {t} : NextOp(t).mu \in HeldBy(h) /\ ~Blocked(h)

\* The Engine's loop is in store.MarkTriggered with the Store's lock, after it
\* has released the cooldown lock; the cleanup routine holds the cooldown lock
\* meanwhile, one caller waits for the Store's lock and the other for the
\* cooldown lock.
C25_StoreLockedCooldownFree ==
    /\ tasks["processTicks"] = [op |-> "Engine.evaluateTick", pos |-> 7]
    /\ HeldBy("processTicks") = {"Store.mu"}
    /\ HeldBy("cleanup") = {"Engine.mu"}
    /\ tasks["api1"].op = "Store.Get" /\ Blocked("api1")
    /\ tasks["api2"].op = "Engine.GetStats" /\ Blocked("api2")

\* C26. Trigger Bus has no filtering: when the Trigger Bus fans out a trigger,
\* every subscriber registered at that moment whose inbox is open and has room
\* receives it, whatever the alert's symbol.
C26_BusServesEveryRegistered ==
    [][\A k \in 1..Len(loops["bus"]) :
          (FanOut("bus", k) /\ loops["bus"][k].item # NilItem) =>
              \A o \in Registered("bus") :
                  (~objects[o].closed /\ HasRoom(o)) =>
                      objects'[o].inbox = Append(objects[o].inbox, loops["bus"][k].item)]_vars

\* C27. CleanupCooldowns removes from the cooldown map exactly the entries whose
\* recorded last-trigger time is older than twice the cooldown window at the
\* time of the call and leaves every other entry unchanged; it changes nothing
\* in the Store or the queues.
C27_CleanupRemovesOnlyOld ==
    [][CleanupCooldowns =>
          /\ DOMAIN cooldownMap' =
                 {id \in DOMAIN cooldownMap : ~(now - cooldownMap[id] > 2 * Cooldown)}
          /\ \A id \in DOMAIN cooldownMap' : cooldownMap'[id] = cooldownMap[id]
          /\ UNCHANGED <<storeVars, queue, queueClosed, objects, loops>>]_vars

\* At time 3 CleanupCooldowns has removed the entry of a1, triggered at time 0
\* (three windows ago), and kept the entry of a2, triggered at time 1 (exactly
\* two windows ago); the Store still records both triggers.
C27_OldEntryPurgedFreshKept ==
    /\ ret = Ret("engine", "CleanupCooldowns", "ok")
    /\ now = 3
    /\ DOMAIN cooldownMap = {"a2"}
    /\ cooldownMap["a2"] = 1
    /\ alerts["a1"].lastTrigger = <<0>>
    /\ alerts["a2"].lastTrigger = <<1>>

\* C28. A published AlertTrigger is immutable: the alert snapshot it carries is
\* a copy taken from the Store when the tick was evaluated and its
\* triggeredPrice equals the tick's price; later Store operations (Update,
\* MarkTriggered, Delete) on that alert id do not change any field of a trigger
\* already published, and each firing produces exactly one AlertTrigger.
C28_PublishedTriggerImmutable ==
    [][/\ \A k \in 1..Len(loops["engine"]) :
             \* the snapshot is what the Store returns when the tick is evaluated
             /\ (EvaluateTick(k) /\ Alive') =>
                    loops'["engine"][k].alerts =
                        GetEnabledBySymbol(loops["engine"][k].item.symbol)
             \* and it stays as taken, with the tick, until the alert is done with
             /\ (loops["engine"][k].pc \in {"check", "trigger"}
                 /\ loops'["engine"][k].pc \in {"check", "trigger"}) =>
                    /\ loops'["engine"][k].alerts = loops["engine"][k].alerts
                    /\ loops'["engine"][k].item = loops["engine"][k].item
             \* one firing hands one trigger to the bus: the snapshot, the price
             \* of the tick and the time
             /\ triggerAlert(k) =>
                    queue'["bus"] =
                        IF Len(queue["bus"]) < MaxQueue
                        THEN Append(queue["bus"],
                                    [kind |-> "trigger",
                                     alert |-> CurrentAlert(k),
                                     triggeredPrice |-> loops["engine"][k].item.price,
                                     timestamp |-> now])
                        ELSE queue["bus"]
       \* what was published stays as it was, whatever happens in the Store
       /\ \A i \in 1..Len(queue["bus"]) :
             /\ i <= Len(queue'["bus"])
             /\ queue'["bus"][i] = queue["bus"][i]
       \* and only a firing publishes
       /\ queue'["bus"] # queue["bus"] =>
             \E k \in 1..Len(loops["engine"]) : triggerAlert(k)]_vars

\* The trigger of a1 at price 101 has been published with the snapshot taken at
\* the evaluation (enabled, never triggered); afterwards MarkTriggered has
\* recorded the trigger in the Store and an Update has disabled a1 there.
C28_StoreChangedAfterPublish ==
    /\ ret = Ret("store", "Update", "ok")
    /\ "a1" \in DOMAIN alerts
    /\ ~alerts["a1"].enabled
    /\ alerts["a1"].lastTrigger = <<1>>
    /\ now = 2
    /\ queue["bus"] = <<[kind |-> "trigger",
                         alert |-> [id |-> "a1", symbol |-> "BTC", comparator |-> "GT",
                                    threshold |-> 100, note |-> "", enabled |-> TRUE,
                                    lastTrigger |-> <<>>],
                         triggeredPrice |-> 101, timestamp |-> 1]>>

\* C29. Stop halts the dispatch loop: once Stop has returned on a Broker,
\* Trigger Bus or Engine, the dispatch loop performs no further fan-out or tick
\* evaluation; in particular it never processes an item still queued at Stop
\* time and never processes the empty value received from the closed internal
\* queue.
C29_StopHaltsDispatch ==
    [][\A c \in Comp : \A k \in 1..Len(loops[c]) :
          stopChan[c] =>
              /\ ~(c \in FanComp /\ FanOut(c, k))
              /\ ~(c = "engine" /\ EvaluateTick(k))]_vars

\* C30. The symbol index never contains an empty bucket: in every reachable
\* Store state each key of the symbol index maps to at least one alert id, so
\* GetActiveSymbols returns exactly the symbols that currently have at least one
\* alert, and the sum of CountBySymbol over all symbols equals Count.
C30_NoEmptyBucket ==
    /\ \A s \in DOMAIN symbolIndex : Len(symbolIndex[s]) >= 1
    /\ GetActiveSymbols = {alerts[id].symbol : id \in DOMAIN alerts}
    /\ \A s \in Symbols : CountBySymbol(s) = Cardinality(StoredWithSymbol(s))
    /\ Cardinality(UNION {{<<s, i>> : i \in 1..CountBySymbol(s)} : s \in Symbols})
           = StoreCount

\* A Delete has succeeded and a1, created under ETH and renamed to BTC, is
\* alone in the Store: no bucket is left for ETH, and BTC is the only active
\* symbol.
C30_LastOfSymbolDeleted ==
    /\ ret = Ret("store", "Delete", "ok")
    /\ DOMAIN alerts = {"a1"}
    /\ alerts["a1"].symbol = "BTC"
    /\ alerts["a1"].comparator = "EQ"
    /\ symbolIndex = MapPut(EmptyMap, "BTC", <<"a1">>)
    /\ GetActiveSymbols = {"BTC"}
    /\ CountBySymbol("ETH") = 0
    /\ StoreCount = 1

\* C31. The dispatch loop never sends into a closed inbox: under every
\* interleaving of Publish, Subscribe, Unsubscribe, Stop and the dispatch loop
\* of one Broker or Trigger Bus, whenever fan-out attempts a send to a
\* subscriber, that subscriber's inbox is open.
C31_FanOutFindsOpenInboxes ==
    [][\A c \in FanComp : \A k \in 1..Len(loops[c]) :
          (FanOut(c, k) /\ loops[c][k].item # NilItem) =>
              \A o \in Targets(c, loops[c][k].item) : ~objects[o].closed]_vars

\* C32. Producers never send on a closed queue: under every interleaving of
\* Stop with Broker.Publish, TriggerBus.Publish and Engine.ProcessTick, no call
\* attempts to enqueue onto an internal queue that has already been closed.
C32_ProducersFindOpenQueue ==
    [][\A c \in Comp : \A item \in Items(c) :
          Publish(c, item) => ~queueClosed[c]]_vars

\* C33. No trigger after disabling: once Update(id, {enabled: false}) has
\* returned, so that the Store holds the alert disabled, the Engine publishes no
\* trigger for that alert id until a later Update enables it again.
C33_NoTriggerOnceDisabled ==
    [][\A k \in 1..Len(loops["engine"]) :
          (triggerAlert(k) /\ queue'["bus"] # queue["bus"]) =>
              (CurrentAlert(k).id \in DOMAIN alerts => alerts[CurrentAlert(k).id].enabled)]_vars

\* C34. An alert never enters cooldown without its trigger being accepted:
\* whenever triggerAlert records the cooldown entry of an alert and calls
\* MarkTriggered for it, the trigger built from that alert and the tick's price
\* is appended to the queue of the Trigger Bus.
C34_CooldownOnlyWithAcceptedTrigger ==
    [][\A k \in 1..Len(loops["engine"]) :
          triggerAlert(k) =>
              queue'["bus"] =
                  Append(queue["bus"],
                         NewAlertTrigger(CurrentAlert(k), loops["engine"][k].item.price))]_vars

\* C35. A cooldown entry suppresses only the alert whose firing created it: an
\* alert that the Store holds as never triggered, as Create inserts it, passes
\* the cooldown check on a qualifying tick, so that the dispatch loop goes on to
\* triggerAlert for it.
C35_NewAlertPassesCooldownCheck ==
    [][\A k \in 1..Len(loops["engine"]) :
          (/\ CheckAlert(k)
           /\ ShouldTrigger(CurrentAlert(k), loops["engine"][k].item.price)
           /\ CurrentAlert(k).id \in DOMAIN alerts
           /\ alerts[CurrentAlert(k).id] = CurrentAlert(k)
           /\ CurrentAlert(k).lastTrigger = <<>>)
              => loops'["engine"][k].pc = "trigger"]_vars

\* The cooldown test of shouldTriggerAlert in the run without CleanupCooldowns
\* calls: there the cooldown map still holds the time of the last firing of
\* every alert, which is the time MarkTriggered recorded in the Store.
InCooldownUncleaned(id) ==
    /\ id \in DOMAIN alerts
    /\ alerts[id].lastTrigger # <<>>
    /\ now - alerts[id].lastTrigger[1] < Cooldown

\* C36. CleanupCooldowns never changes a trigger decision: in every state of
\* the Engine working beside the cleanup routine the cooldown test gives, for
\* every alert, the answer it gives in the run without the CleanupCooldowns
\* calls, and every decision of the dispatch loop is the one that run takes, so
\* that both runs publish the same triggers.
C36_CleanupKeepsDecisions ==
    /\ [](\A id \in AlertIds : InCooldown(id) <=> InCooldownUncleaned(id))
    /\ [][\A k \in 1..Len(loops["engine"]) :
             CheckAlert(k) =>
                 (loops'["engine"][k].pc = "trigger" <=>
                      /\ ShouldTrigger(CurrentAlert(k), loops["engine"][k].item.price)
                      /\ ~InCooldownUncleaned(CurrentAlert(k).id))]_vars

\* CleanupCooldowns has removed the entry of a1, which fired at time 0, and at
\* time 3 the dispatch loop has decided to fire a1 again on a qualifying tick.
C36_FiresAgainAfterCleanup ==
    /\ now = 3
    /\ "a1" \notin DOMAIN cooldownMap
    /\ alerts["a1"].lastTrigger = <<0>>
    /\ LoopAt("engine", 1, "trigger")
    /\ CurrentAlert(1).id = "a1"

\* The running flag of a component as its callers see it: GetStats().Running of
\* the Engine and of the TriggerBus, the field running of the Broker.
ReportsRunning(c) ==
    IF c = "engine" THEN GetStats.Running
    ELSE IF c = "bus" THEN TriggerBusGetStats.Running
    ELSE running[c]

\* C37. The running flag tracks the dispatch loop: whenever a Broker, Trigger
\* Bus or Engine reports Running = true, one of its dispatch loops has not
\* exited; once every dispatch loop has exited, through Stop or through
\* cancellation of the context passed to Start, it reports Running = false.
C37_RunningMeansLoopActive ==
    \A c \in Comp :
        (Alive /\ ReportsRunning(c)) =>
            \E k \in 1..Len(loops[c]) : loops[c][k].pc # "exited"

\* The item is in the internal queue of component c.
Queued(c, item) == \E i \in 1..Len(queue[c]) : queue[c][i] = item

\* A dispatch loop of component c has taken the item and is at work on it.
AtWorkOn(c, item) ==
    \E k \in 1..Len(loops[c]) : loops[c][k].pc # "select" /\ loops[c][k].pc # "exited"
                                  /\ loops[c][k].item = item

\* C38. Progress while running: under weak fairness of the dispatch task of a
\* started component that is neither stopped nor cancelled, every item that
\* Engine.ProcessTick, Broker.Publish or TriggerBus.Publish has put on the
\* internal queue is eventually taken by the dispatch loop, and the dispatch
\* loop eventually finishes the evaluation or the fan-out of every item it has
\* taken, whatever the state of the subscribers' inboxes.
C38_AcceptedItemsAreProcessed ==
    \A c \in Comp : \A item \in Items(c) :
        /\ (running[c] /\ Queued(c, item)) ~> AtWorkOn(c, item)
        /\ AtWorkOn(c, item) ~> (~AtWorkOn(c, item) /\ Alive)

\* The Broker's dispatch loop has fanned a tick out and is back at its select
\* with an empty queue, while the inbox of a registered subscriber is full.
C38_FannedOutPastFullInbox ==
    /\ running["broker"]
    /\ queue["broker"] = <<>>
    /\ LoopAt("broker", 1, "select")
    /\ \E o \in Registered("broker") :
           /\ ~HasRoom(o)
           /\ objects[o].symbols = {"BTC"}
           /\ objects[o].inbox = <<NewTick("BTC", 1)>>
    /\ ret = Ret("broker", "Publish", "queued")

\* The ids of the alerts of a snapshot, in its order.
SnapshotIds(snapshot) == [i \in 1..Len(snapshot) |-> snapshot[i].id]

\* No id occurs twice in the sequence.
Distinct(ids) == \A i, j \in 1..Len(ids) : i # j => ids[i] # ids[j]

\* The alert id has an entry in the cooldown map that is younger than the
\* cooldown.
OwnEntryInWindow(id) == id \in DOMAIN cooldownMap /\ now - cooldownMap[id] < Cooldown

\* C39. Cooldown is per alert id and each alert fires at most once per tick:
\* the snapshot evaluateTick takes holds every enabled alert of the tick's
\* symbol exactly once; the loop visits each alert of the snapshot once, in
\* order, and runs triggerAlert at most once for it; whether an alert fires
\* depends on its own condition and its own cooldown entry only; and a firing
\* writes the cooldown entry and the last-trigger time of that alert only.
C39_PerAlertOncePerTick ==
    /\ [](\A s \in Symbols :
             /\ Distinct(SnapshotIds(GetEnabledBySymbol(s)))
             /\ SeqToSet(SnapshotIds(GetEnabledBySymbol(s))) =
                    {id \in DOMAIN alerts : alerts[id].symbol = s /\ alerts[id].enabled})
    /\ [](\A k \in 1..Len(loops["engine"]) : Distinct(SnapshotIds(loops["engine"][k].alerts)))
    /\ [][\A k \in 1..Len(loops["engine"]) :
             (EvaluateTick(k) /\ loops["engine"][k].item # NilItem) =>
                 LET snapshot == GetEnabledBySymbol(loops["engine"][k].item.symbol)
                 IN IF snapshot = <<>>
                    THEN loops'["engine"][k].pc = "select"
                    ELSE /\ loops'["engine"][k].alerts = snapshot
                         /\ loops'["engine"][k].i = 1
                         /\ loops'["engine"][k].pc = "check"]_vars
    /\ [][\A k \in 1..Len(loops["engine"]) :
             CheckAlert(k) =>
                 LET l == loops["engine"][k]
                 IN IF ShouldTrigger(CurrentAlert(k), l.item.price)
                       /\ ~OwnEntryInWindow(CurrentAlert(k).id)
                    THEN loops'["engine"][k] = [l EXCEPT !.pc = "trigger"]
                    ELSE \/ loops'["engine"][k] = [l EXCEPT !.i = l.i + 1]
                         \/ l.i = Len(l.alerts) /\ loops'["engine"][k].pc = "select"]_vars
    /\ [][\A k \in 1..Len(loops["engine"]) :
             triggerAlert(k) =>
                 LET l == loops["engine"][k]
                 IN /\ \/ loops'["engine"][k] = [l EXCEPT !.pc = "check", !.i = l.i + 1]
                       \/ l.i = Len(l.alerts) /\ loops'["engine"][k].pc = "select"
                    /\ Len(queue'["bus"]) <= Len(queue["bus"]) + 1
                    /\ \A id \in AlertIds \ {CurrentAlert(k).id} :
                          /\ id \in DOMAIN cooldownMap' <=> id \in DOMAIN cooldownMap
                          /\ id \in DOMAIN cooldownMap => cooldownMap'[id] = cooldownMap[id]
                          /\ id \in DOMAIN alerts => alerts'[id] = alerts[id]]_vars

\* On one tick the dispatch loop has fired a1, which had no cooldown entry, and
\* has come to a2, which fired on an earlier tick and is within its cooldown.
C39_FiredBesideAlertInCooldown ==
    /\ LoopAt("engine", 1, "check")
    /\ SnapshotIds(loops["engine"][1].alerts) = <<"a1", "a2">>
    /\ loops["engine"][1].i = 2
    /\ ret = Ret("engine", "triggerAlert", "ok")
    /\ OwnEntryInWindow("a1")
    /\ OwnEntryInWindow("a2")
    /\ alerts["a1"].lastTrigger = <<0>>
    /\ alerts["a2"].lastTrigger = <<0>>

====
